---- MODULE Spec2Model ----
(***************************************************************************)
(* terraform-provider-vaultprov: the Vault KV-v2 path resolution, the      *)
(* secret lifecycle layer (VaultApi) and the resources built on it         *)
(* (KeyPairSecret, RandomSecret).                                          *)
(*                                                                         *)
(* Strings that the code takes apart (paths) are sequences of one-         *)
(* character strings, so that TrimPrefix, TrimRight, SplitN and path.Join  *)
(* are computed character by character as the Go code does.  Strings that  *)
(* the code only compares (metadata keys, error texts, types) are TLA+     *)
(* strings.                                                                *)
(***************************************************************************)
EXTENDS Integers, Sequences, FiniteSets, TLC

\* ---------------------------------------------------------------- bounds

\* Number of store mutations remembered per key (history).
HistLen == 2

\* Handler calls per behaviour.
MaxOps == 3

\* Longest base path given to keypairPaths on its own.
MaxPathLen == 4

\* ------------------------------------------------------- string helpers

HasPrefix(s, pre) ==
    /\ Len(pre) <= Len(s)
    /\ SubSeq(s, 1, Len(pre)) = pre

HasSuffix(s, suf) ==
    /\ Len(suf) <= Len(s)
    /\ SubSeq(s, Len(s) - Len(suf) + 1, Len(s)) = suf

TrimPrefix(s, pre) ==
    IF HasPrefix(s, pre) THEN SubSeq(s, Len(pre) + 1, Len(s)) ELSE s

TrimSuffix(s, suf) ==
    IF HasSuffix(s, suf) THEN SubSeq(s, 1, Len(s) - Len(suf)) ELSE s

\* strings.TrimRight(s, "/")
RECURSIVE TrimRightSlash(_)
TrimRightSlash(s) ==
    IF Len(s) > 0 /\ s[Len(s)] = "/"
    THEN TrimRightSlash(SubSeq(s, 1, Len(s) - 1))
    ELSE s

\* the loop of ensureNoLeadingSlash
RECURSIVE TrimLeftSlash(_)
TrimLeftSlash(s) ==
    IF Len(s) > 0 /\ s[1] = "/"
    THEN TrimLeftSlash(SubSeq(s, 2, Len(s)))
    ELSE s

\* Index of the first "/" of s, 0 when there is none.
IndexSlash(s) ==
    IF \E i \in 1..Len(s) : s[i] = "/"
    THEN CHOOSE i \in 1..Len(s) : s[i] = "/" /\ \A j \in 1..(i - 1) : s[j] # "/"
    ELSE 0

\* strings.SplitN(s, "/", 2)
SplitN2(s) ==
    LET i == IndexSlash(s) IN
    IF i = 0 THEN << s >>
    ELSE << SubSeq(s, 1, i - 1), SubSeq(s, i + 1, Len(s)) >>

\* path.Clean on paths without "." and ".." elements: runs of "/" collapse
\* to one and a trailing "/" is dropped unless the path is the root.
RECURSIVE CollapseSlashes(_)
CollapseSlashes(s) ==
    IF Len(s) <= 1 THEN s
    ELSE IF s[1] = "/" /\ s[2] = "/" THEN CollapseSlashes(Tail(s))
    ELSE << s[1] >> \o CollapseSlashes(Tail(s))

Clean(s) ==
    LET c == CollapseSlashes(s) IN
    IF Len(c) > 1 /\ c[Len(c)] = "/" THEN SubSeq(c, 1, Len(c) - 1) ELSE c

\* path.Join: the non-empty elements joined by "/", then cleaned; "" when
\* every element is empty.
RECURSIVE JoinNonEmpty(_)
JoinNonEmpty(elems) ==
    IF Len(elems) = 0 THEN << >>
    ELSE IF Len(elems) = 1 THEN elems[1]
    ELSE elems[1] \o << "/" >> \o JoinNonEmpty(Tail(elems))

PathJoin(elems) ==
    LET ne == SelectSeq(elems, LAMBDA e : Len(e) > 0) IN
    IF Len(ne) = 0 THEN << >> ELSE Clean(JoinNonEmpty(ne))

\* ------------------------------------------------ vault_utils: sanitize

ensureNoLeadingSlash(s) == IF s = << >> THEN << >> ELSE TrimLeftSlash(s)

ensureNoTrailingSlash(s) == IF s = << >> THEN << >> ELSE TrimRightSlash(s)

sanitizePath(s) == ensureNoTrailingSlash(ensureNoLeadingSlash(s))

\* The for loop of addPrefixToKVPath, from the state (mountPath, tp).
RECURSIVE addPrefixLoop(_, _, _)
addPrefixLoop(p, mountPath, tp) ==
    IF tp # p THEN << mountPath, tp >>
    ELSE LET partialMountPath == SplitN2(mountPath) IN
         IF Len(partialMountPath) <= 1 \/ partialMountPath[2] = << >>
         THEN << mountPath, tp >>
         ELSE LET m2 == TrimSuffix(partialMountPath[2], << "/" >>) IN
              addPrefixLoop(p, m2, TrimPrefix(tp, m2))

\* A rewrite without the case of a path that is the mount path itself.
addPrefixUnlessMount(p, mountPath, apiPrefix) ==
    LET r == addPrefixLoop(p, mountPath, TrimPrefix(p, mountPath)) IN
    PathJoin(<< r[1], apiPrefix, r[2] >>)

addPrefixToKVPath(p, mountPath, apiPrefix) ==
    IF p = mountPath \/ p = TrimSuffix(mountPath, << "/" >>)
    THEN PathJoin(<< mountPath, apiPrefix >>)
    ELSE LET r == addPrefixLoop(p, mountPath, TrimPrefix(p, mountPath)) IN
         PathJoin(<< r[1], apiPrefix, r[2] >>)

\* ------------------------------------------------------------ constants

SecretDataField == << "d", "a", "t", "a" >>

MetadataPrefix == << "m", "e", "t", "a", "d", "a", "t", "a" >>

DeletePrefix == << "d", "e", "l", "e", "t", "e" >>

SecretCustomDataField == "custom_metadata"

SecretTypeMetadata == "secret_type"

SecretLengthMetadata == "secret_length"

KeyPairLinkedSecretMetadata == "keypair_linked_secret_path"

KeyPairPartMetadata == "keypair_part"

Curve25519KeyPairType == "curve25519"

PrivateKeyPart == << "p", "r", "i", "v", "a", "t", "e" >>

PublicKeyPart == << "p", "u", "b", "l", "i", "c" >>

\* strconv.Itoa(Curve25519KeySize)
Curve25519KeySizeStr == "32"

\* --------------------------------------------------- maps (Go map[K]V)

\* A map is the set of its <<key, value>> pairs.
MapKeys(m) == { e[1] : e \in m }

MapGet(m, k) == (CHOOSE e \in m : e[1] = k)[2]

MapPut(m, k, v) == { e \in m : e[1] # k } \cup { << k, v >> }

\* ------------------------------------------- the Vault server (KV v2)

\* The mounts of the server: the KV-v2 engine at "kv/", a KV-v1 engine at
\* "v1/".  Every other path has no mount.
MountKV == << "k", "v", "/" >>

MountV1 == << "v", "1", "/" >>

Mounts == { [path |-> MountKV, version |-> "2"], [path |-> MountV1, version |-> "1"] }

\* The mount serving a sanitized path q (sys/internal/ui/mounts/<q>).
MountsOf(q) == { m \in Mounts : HasPrefix(q \o << "/" >>, m.path) }

\* The store: kv maps the logical key (mount path + key) of each secret the
\* engine holds to [hasData, data, deletion_time, hasCM, cm]: whether it has
\* a version, the data of the latest version, its deletion_time ("" while
\* live), and the custom metadata (hasCM is FALSE while the engine holds
\* none: the field reads as null).
NoKV == [k \in {} |-> 0]

KVPut(kv, k, e) == [x \in (DOMAIN kv) \cup {k} |-> IF x = k THEN e ELSE kv[x]]

KVRemove(kv, k) == [x \in (DOMAIN kv) \ {k} |-> kv[x]]

\* An API path of the KV-v2 engine: <mount>/<verb>/<key>.
EnvRoute(apiPath) ==
    LET full == apiPath \o << "/" >>
        ms == { m \in Mounts : m.version = "2" /\ HasPrefix(full, m.path) }
    IN  IF ms = {} THEN [ok |-> FALSE, verb |-> << >>, key |-> << >>]
        ELSE LET m == CHOOSE x \in ms : TRUE
                 parts == SplitN2(TrimPrefix(apiPath, m.path))
             IN  IF Len(parts) < 2 \/ parts[2] = << >>
                 THEN [ok |-> FALSE, verb |-> << >>, key |-> << >>]
                 ELSE [ok |-> TRUE, verb |-> parts[1], key |-> m.path \o parts[2]]

NilSecret == [isNil |-> TRUE]

\* GET <mount>/data/<key>: nothing (404 without a body) when the key is not
\* held; for a soft-deleted latest version a body without data whose
\* metadata carries the deletion_time; otherwise data and metadata.
\* GET <mount>/metadata/<key>: the metadata object, custom_metadata null
\* when none is held.
EnvRead(kv, apiPath) ==
    LET r == EnvRoute(apiPath) IN
    IF ~r.ok \/ r.key \notin DOMAIN kv THEN NilSecret
    ELSE LET e == kv[r.key] IN
         IF r.verb = SecretDataField
         THEN IF ~e.hasData THEN NilSecret
              ELSE [isNil |-> FALSE, kind |-> "data", DataNil |-> FALSE,
                    dataNil |-> (e.deletion_time # ""),
                    data |-> IF e.deletion_time # "" THEN {} ELSE e.data,
                    metadataNil |-> FALSE,
                    deletionTimeNil |-> FALSE,
                    deletion_time |-> e.deletion_time]
         ELSE IF r.verb = MetadataPrefix
         THEN [isNil |-> FALSE, kind |-> "metadata", DataNil |-> FALSE,
               customMetadataNil |-> ~e.hasCM,
               custom_metadata |-> e.cm,
               versions |-> IF ~e.hasData THEN {}
                            ELSE { << "1", e.deletion_time >> }]
         ELSE NilSecret

\* PUT <mount>/data/<key> {"data": d}: a new live version.
\* PUT <mount>/metadata/<key> {"custom_metadata": m}: replaces the custom
\* metadata (an empty map reads back as null).
EnvWrite(kv, apiPath, body) ==
    LET r == EnvRoute(apiPath) IN
    IF ~r.ok THEN kv
    ELSE LET old == IF r.key \in DOMAIN kv THEN kv[r.key]
                    ELSE [hasData |-> FALSE, data |-> {}, deletion_time |-> "",
                          hasCM |-> FALSE, cm |-> {}]
         IN  IF r.verb = SecretDataField
             THEN KVPut(kv, r.key, [old EXCEPT !.hasData = TRUE, !.data = body.data,
                                               !.deletion_time = ""])
             ELSE IF r.verb = MetadataPrefix
             THEN KVPut(kv, r.key, [old EXCEPT !.hasCM = (body.custom_metadata # {}),
                                               !.cm = body.custom_metadata])
             ELSE kv

\* DELETE <mount>/metadata/<key>: the key, all its versions and its metadata
\* are removed.  DELETE <mount>/data/<key>: the latest version is marked
\* deleted.
DeletedAt == "2024-01-01T00:00:00Z"

EnvDelete(kv, apiPath) ==
    LET r == EnvRoute(apiPath) IN
    IF ~r.ok \/ r.key \notin DOMAIN kv THEN kv
    ELSE IF r.verb = MetadataPrefix THEN KVRemove(kv, r.key)
    ELSE IF r.verb = SecretDataField /\ kv[r.key].hasData
    THEN KVPut(kv, r.key, [kv[r.key] EXCEPT !.deletion_time = DeletedAt])
    ELSE kv

\* ------------------------------------------- the client (vault/api)

\* A world is what a handler reads and changes as it runs: the store kv,
\* the store calls issued so far (calls, each <<verb, path>>), and hist,
\* which remembers for each key the last HistLen mutations: "create",
\* "update" and "delete" for the operations that succeeded, "create data"
\* for a CreateSecret that failed after its data write, "softdelete" for a
\* version marked deleted out of band.
\* An injected fault f = [at, kind] makes the at-th store call of one
\* VaultApi operation fail (at = 0: none); kind "404" is the answer of a
\* server without the mount-discovery endpoint.
NoFault == [at |-> 0, kind |-> "none"]

NoErr == [msg |-> "", cause |-> ""]

Err(msg, cause) == [msg |-> msg, cause |-> cause]

TransportError == "transport error"

Called(w, verb, path) == [w EXCEPT !.calls = Append(@, << verb, path >>)]

HistOf(w, key) == IF key \in DOMAIN w.hist THEN w.hist[key] ELSE << >>

HistAdd(w, key, e) ==
    LET h == Append(HistOf(w, key), e)
        cut == IF Len(h) > HistLen THEN SubSeq(h, Len(h) - HistLen + 1, Len(h)) ELSE h
    IN  [w EXCEPT !.hist = KVPut(@, key, cut)]

\* client.Logical().Read(path)
LogicalRead(w, f, k, apiPath) ==
    LET w1 == Called(w, "read", apiPath) IN
    IF f.at = k THEN [w |-> w1, val |-> NilSecret, err |-> TransportError]
    ELSE [w |-> w1, val |-> EnvRead(w.kv, apiPath), err |-> ""]

\* client.Logical().Write(path, body)
LogicalWrite(w, f, k, apiPath, body) ==
    LET w1 == Called(w, "write", apiPath) IN
    IF f.at = k THEN [w |-> w1, err |-> TransportError]
    ELSE [w |-> [w1 EXCEPT !.kv = EnvWrite(@, apiPath, body)], err |-> ""]

\* client.Logical().Delete(path)
LogicalDelete(w, f, k, apiPath) ==
    LET w1 == Called(w, "delete", apiPath) IN
    IF f.at = k THEN [w |-> w1, err |-> TransportError]
    ELSE [w |-> [w1 EXCEPT !.kv = EnvDelete(@, apiPath)], err |-> ""]

\* ------------------------------------------ vault_utils: mount probe

\* Operations are written as chains of stages: each stage is an operator
\* that takes the result of the store call before it and either returns or
\* makes the next call.

\* A probe that returns the error of a 404 answer like any other error.
kvPreflight404AsError(w, f, k, path) ==
    LET w1 == Called(w, "probe", path)
        ms == MountsOf(path)
    IN  IF f.at = k
        THEN [w |-> w1, mountPath |-> << >>, version |-> 0, err |-> TransportError]
        ELSE IF ms = {}
        THEN [w |-> w1, mountPath |-> << >>, version |-> 0, err |-> "permission denied"]
        ELSE LET m == CHOOSE x \in ms : TRUE IN
             [w |-> w1, mountPath |-> m.path,
              version |-> CASE m.version \in {"", "1"} -> 1
                            [] m.version = "2" -> 2
                            [] OTHER -> 1,
              err |-> ""]

\* secret.Data of a mount-discovery answer: "path" (hasPath: the key is
\* there) and "options", nil or a map with or without a "version" string.
NilOptions == [isNil |-> TRUE, hasVersion |-> FALSE, version |-> ""]

NoVersion == [isNil |-> FALSE, hasVersion |-> FALSE, version |-> ""]

Options(version) == [isNil |-> FALSE, hasVersion |-> TRUE, version |-> version]

\* What the endpoint answers for a mount of the server.
MountAnswer(m) == [hasPath |-> TRUE, path |-> m.path, options |-> Options(m.version)]

\* A version selection that takes every version string other than "" and
\* "1" for version 2.
versionOfOptionsLenient(options) ==
    IF options.isNil THEN 1
    ELSE IF ~options.hasVersion THEN 1
    ELSE CASE options.version \in {"", "1"} -> 1
           [] OTHER -> 2

\* The version that kvPreflightVersionRequest returns for the options of
\* an answer.
versionOfOptions(options) ==
    IF options.isNil THEN 1
    ELSE IF ~options.hasVersion THEN 1
    ELSE CASE options.version \in {"", "1"} -> 1
           [] options.version = "2" -> 2
           [] OTHER -> 1

\* kvPreflightVersionRequest from the parsed answer on.
preflightParsed(w, answer) ==
    [w |-> w, mountPath |-> IF answer.hasPath THEN answer.path ELSE << >>,
     version |-> versionOfOptions(answer.options), err |-> ""]

kvPreflightVersionRequest(w, f, k, path) ==
    LET w1 == Called(w, "probe", path)
        ms == MountsOf(path)
    IN  IF f.at = k /\ f.kind = "404"
        THEN [w |-> w1, mountPath |-> << >>, version |-> 1, err |-> ""]
        ELSE IF f.at = k
        THEN [w |-> w1, mountPath |-> << >>, version |-> 0, err |-> TransportError]
        ELSE IF ms = {}
        THEN [w |-> w1, mountPath |-> << >>, version |-> 0, err |-> "permission denied"]
        ELSE preflightParsed(w1, MountAnswer(CHOOSE x \in ms : TRUE))

\* isKVv2 from the answer r of the probe.
isKVv2Of(r) ==
    IF r.err # "" THEN [w |-> r.w, mountPath |-> << >>, v2 |-> FALSE, err |-> r.err]
    ELSE [w |-> r.w, mountPath |-> r.mountPath, v2 |-> (r.version = 2), err |-> ""]

isKVv2(w, f, k, path) == isKVv2Of(kvPreflightVersionRequest(w, f, k, path))

\* prefixSecretPath from the answer r of isKVv2.
prefixSecretPathOf(partialPath, prefix, r) ==
    IF r.err # "" THEN [w |-> r.w, val |-> << >>, err |-> r.err]
    ELSE IF ~r.v2 THEN [w |-> r.w, val |-> << >>, err |-> "unsupported mount"]
    ELSE [w |-> r.w, val |-> addPrefixToKVPath(partialPath, r.mountPath, prefix),
          err |-> ""]

prefixSecretPath(w, f, k, secretPath, prefix) ==
    prefixSecretPathOf(sanitizePath(secretPath), prefix,
                       isKVv2(w, f, k, sanitizePath(secretPath)))

secretMetadataPath(w, f, k, secretPath) ==
    prefixSecretPath(w, f, k, secretPath, MetadataPrefix)

secretDataPath(w, f, k, secretPath) ==
    prefixSecretPath(w, f, k, secretPath, SecretDataField)

secretDeletePath(w, f, k, secretPath) ==
    prefixSecretPath(w, f, k, secretPath, DeletePrefix)

\* (isDeleted, err) of isSecretDeleted: the code compares deletion_time
\* with nil.
isSecretDeleted(secret) ==
    IF secret.DataNil
    THEN [deleted |-> FALSE, err |-> "missing secret data"]
    ELSE IF secret.metadataNil
    THEN [deleted |-> FALSE, err |-> "missing secret metadata"]
    ELSE [deleted |-> secret.deletionTimeNil, err |-> ""]

\* ------------------------------------------------- vault_api: VaultApi

\* A Go panic (nil dereference, failed type assertion): the operation does
\* not return.
Panic == "panic"

Panicked(err) == err.msg = Panic

Fail(w, msg, cause) == [w |-> w, err |-> Err(msg, cause)]

\* A CreateSecret that removes the secret it wrote when the metadata write
\* fails.
createWroteMetadataCompensated(secret, wm) ==
    IF wm.err # ""
    THEN Fail([Called(wm.w, "delete", wm.w.calls[Len(wm.w.calls)][2])
                 EXCEPT !.kv = KVRemove(@, sanitizePath(secret.Path))],
              "unable to write secret's metadata", wm.err)
    ELSE [w |-> HistAdd(wm.w, sanitizePath(secret.Path),
                        [op |-> "create", path |-> secret.Path, data |-> secret.Data,
                         meta |-> secret.Metadata]),
          err |-> NoErr]

\* CreateSecret(secret): store calls 1 probe, 2 read data, 3 probe,
\* 4 write data, 5 write metadata.
createWroteMetadata(secret, wm) ==
    IF wm.err # ""
    THEN Fail(HistAdd(wm.w, sanitizePath(secret.Path),
                      [op |-> "create data", path |-> secret.Path,
                       data |-> secret.Data, meta |-> {}]),
              "unable to write secret's metadata", wm.err)
    ELSE [w |-> HistAdd(wm.w, sanitizePath(secret.Path),
                        [op |-> "create", path |-> secret.Path, data |-> secret.Data,
                         meta |-> secret.Metadata]),
          err |-> NoErr]

\* A CreateSecret that returns after the data write without writing the
\* custom metadata.
createWroteDataOnly(secret, f, metadataPath, wd) ==
    IF wd.err # "" THEN Fail(wd.w, "unable to write secret's data", wd.err)
    ELSE [w |-> HistAdd(wd.w, sanitizePath(secret.Path),
                        [op |-> "create", path |-> secret.Path, data |-> secret.Data,
                         meta |-> secret.Metadata]),
          err |-> NoErr]

createWroteData(secret, f, metadataPath, wd) ==
    IF wd.err # "" THEN Fail(wd.w, "unable to write secret's data", wd.err)
    ELSE createWroteMetadata(secret,
            LogicalWrite(wd.w, f, 5, metadataPath, [custom_metadata |-> secret.Metadata]))

createGotMetadataPath(secret, f, dataPath, mp) ==
    IF mp.err # "" THEN Fail(mp.w, "invalid path for metadata", mp.err)
    ELSE createWroteData(secret, f, mp.val,
            LogicalWrite(mp.w, f, 4, dataPath, [data |-> secret.Data]))

\* A CreateSecret without the existence check: it writes over what the
\* path holds.
createOverExisting(secret, f, dataPath, s) ==
    IF s.err # "" THEN Fail(s.w, "unable to read secret's data", s.err)
    ELSE createGotMetadataPath(secret, f, dataPath,
            secretMetadataPath(s.w, f, 3, secret.Path))

createCheckedExisting(secret, f, dataPath, s) ==
    IF s.err # "" THEN Fail(s.w, "unable to read secret's data", s.err)
    ELSE IF ~s.val.isNil THEN Fail(s.w, "already exists", "")
    ELSE createGotMetadataPath(secret, f, dataPath,
            secretMetadataPath(s.w, f, 3, secret.Path))

createGotDataPath(secret, f, dp) ==
    IF dp.err # "" THEN Fail(dp.w, "invalid path for data", dp.err)
    ELSE createCheckedExisting(secret, f, dp.val, LogicalRead(dp.w, f, 2, dp.val))

CreateSecret(w, secret, f) ==
    createGotDataPath(secret, f, secretDataPath(w, f, 1, secret.Path))

NoSecret == [isNil |-> TRUE, Path |-> << >>, Data |-> {}, Metadata |-> {}]

FailRead(w, msg, cause) == [w |-> w, val |-> NoSecret, err |-> Err(msg, cause)]

\* ReadSecret(secretPath): store calls 1 probe, 2 read data, 3 probe,
\* 4 read metadata.
readGotMetadata(secretPath, secret, secretMetadata) ==
    IF secretMetadata.err # ""
    THEN FailRead(secretMetadata.w, "unable to read secret's metadata", secretMetadata.err)
    ELSE IF secretMetadata.val.isNil
    THEN FailRead(secretMetadata.w, Panic, "nil dereference")
    ELSE IF secretMetadata.val.customMetadataNil
    THEN FailRead(secretMetadata.w, "missing custom metadata", "")
    ELSE IF secret.dataNil
    THEN FailRead(secretMetadata.w, Panic, "type assertion")
    ELSE [w |-> secretMetadata.w,
          val |-> [isNil |-> FALSE, Path |-> secretPath, Data |-> secret.data,
                   Metadata |-> secretMetadata.val.custom_metadata],
          err |-> NoErr]

readGotMetadataPath(secretPath, f, secret, mp) ==
    IF mp.err # "" THEN FailRead(mp.w, "invalid path for metadata", mp.err)
    ELSE readGotMetadata(secretPath, secret, LogicalRead(mp.w, f, 4, mp.val))

readCheckedDeleted(w, secretPath, f, secret, del) ==
    IF del.err # ""
    THEN FailRead(w, "unable to check secret's deletion status", del.err)
    ELSE IF del.deleted THEN FailRead(w, "secret is marked deleted", "")
    ELSE readGotMetadataPath(secretPath, f, secret,
            secretMetadataPath(w, f, 3, secretPath))

\* A ReadSecret that reads the data a second time when the read failed.
readGotDataRetried(secretPath, f, secret) ==
    LET again == IF secret.err = "" THEN secret
                 ELSE LogicalRead(secret.w, NoFault, 2,
                                  secret.w.calls[Len(secret.w.calls)][2])
    IN  IF again.val.isNil THEN [w |-> again.w, val |-> NoSecret, err |-> NoErr]
        ELSE readCheckedDeleted(again.w, secretPath, f, again.val,
                                isSecretDeleted(again.val))

readGotData(secretPath, f, secret) ==
    IF secret.err # "" THEN FailRead(secret.w, "unable to read secret's data", secret.err)
    ELSE IF secret.val.isNil THEN [w |-> secret.w, val |-> NoSecret, err |-> NoErr]
    ELSE readCheckedDeleted(secret.w, secretPath, f, secret.val,
                            isSecretDeleted(secret.val))

readGotDataPath(secretPath, f, dp) ==
    IF dp.err # "" THEN FailRead(dp.w, "invalid path for data", dp.err)
    ELSE readGotData(secretPath, f, LogicalRead(dp.w, f, 2, dp.val))

ReadSecret(w, secretPath, f) ==
    readGotDataPath(secretPath, f, secretDataPath(w, f, 1, secretPath))

\* UpdateSecretMetadata(secretPath, metadata): store calls 1 probe,
\* 2 read metadata, 3 write metadata.
updateWroteMetadata(secretPath, metadata, wm) ==
    IF wm.err # "" THEN Fail(wm.w, "unable to write secret's metadata", wm.err)
    ELSE [w |-> HistAdd(wm.w, sanitizePath(secretPath),
                        [op |-> "update", path |-> secretPath, data |-> {}, meta |-> metadata]),
          err |-> NoErr]

\* The copy the code makes of the caller's map, entry by entry.
updatedMetadataOf(metadata) == { e \in metadata : TRUE }

\* An UpdateSecretMetadata that merges the given map into the stored one
\* instead of replacing it.
updateMergedMetadata(secretPath, metadata, f, metadataPath, secretMetadata) ==
    IF secretMetadata.err # ""
    THEN Fail(secretMetadata.w, "unable to read secret's metadata", secretMetadata.err)
    ELSE IF secretMetadata.val.isNil
    THEN Fail(secretMetadata.w, Panic, "nil dereference")
    ELSE IF secretMetadata.val.customMetadataNil
    THEN Fail(secretMetadata.w, "missing custom metadata", "")
    ELSE updateWroteMetadata(secretPath, metadata,
            LogicalWrite(secretMetadata.w, f, 3, metadataPath,
                [custom_metadata |->
                    { e \in secretMetadata.val.custom_metadata :
                        e[1] \notin MapKeys(metadata) } \cup metadata]))

updateGotMetadata(secretPath, metadata, f, metadataPath, secretMetadata) ==
    IF secretMetadata.err # ""
    THEN Fail(secretMetadata.w, "unable to read secret's metadata", secretMetadata.err)
    ELSE IF secretMetadata.val.isNil
    THEN Fail(secretMetadata.w, Panic, "nil dereference")
    ELSE IF secretMetadata.val.customMetadataNil
    THEN Fail(secretMetadata.w, "missing custom metadata", "")
    ELSE updateWroteMetadata(secretPath, metadata,
            LogicalWrite(secretMetadata.w, f, 3, metadataPath,
                         [custom_metadata |-> updatedMetadataOf(metadata)]))

updateGotMetadataPath(secretPath, metadata, f, mp) ==
    IF mp.err # "" THEN Fail(mp.w, "invalid path for metadata", mp.err)
    ELSE updateGotMetadata(secretPath, metadata, f, mp.val,
                           LogicalRead(mp.w, f, 2, mp.val))

UpdateSecretMetadata(w, secretPath, metadata, f) ==
    updateGotMetadataPath(secretPath, metadata, f,
                          secretMetadataPath(w, f, 1, secretPath))

\* Version keys strconv.Atoi accepts.
Decimal == { "1", "2", "3" }

\* mapstructure.Decode(secret.Data, &metadata): fields are matched by their
\* Go names, case-insensitively (the struct carries json tags only), so
\* Versions is filled from "versions" and each version's DeletionTime, which
\* "deletion_time" does not match, keeps its zero value.
decodeVersions(versions) == { << v[1], "" >> : v \in versions }

\* DeleteSecret(secretPath): store calls 1 probe, 2 read metadata, 3 probe,
\* 4 delete metadata.
deleteDeleted(secretPath, d) ==
    IF d.err # "" THEN Fail(d.w, "unable to mark secret's versions as deleted", d.err)
    ELSE [w |-> HistAdd(d.w, sanitizePath(secretPath),
                        [op |-> "delete", path |-> secretPath, data |-> {}, meta |-> {}]),
          err |-> NoErr]

deleteGotDeletePath(secretPath, f, deletePath) ==
    IF deletePath.err # "" THEN Fail(deletePath.w, "invalid path for deletion", deletePath.err)
    ELSE deleteDeleted(secretPath, LogicalDelete(deletePath.w, f, 4, deletePath.val))

\* A DeleteSecret that addresses its delete call to the delete sub-path,
\* which the engine serves for writes only.
deleteAtDeletePath(secretPath, f, secret) ==
    IF secret.err # "" THEN Fail(secret.w, "unable to read secret's metadata", secret.err)
    ELSE IF secret.val.isNil THEN Fail(secret.w, "no metadata for secret", "")
    ELSE deleteGotDeletePath(secretPath, f, secretDeletePath(secret.w, f, 3, secretPath))

\* A DeleteSecret that issues its delete call only when the versions it
\* was given hold one that is not marked deleted.
deleteActiveVersionsOnly(secretPath, f, secret) ==
    IF secret.err # "" THEN Fail(secret.w, "unable to read secret's metadata", secret.err)
    ELSE IF secret.val.isNil THEN Fail(secret.w, "no metadata for secret", "")
    ELSE IF \A v \in secret.val.versions : v[2] # ""
    THEN [w |-> secret.w, err |-> NoErr]
    ELSE deleteGotDeletePath(secretPath, f, secretMetadataPath(secret.w, f, 3, secretPath))

\* A DeleteSecret that takes a metadata read without an object for a secret
\* without versions and goes on to its delete call.
deleteGotMetadataOrNone(secretPath, f, secret) ==
    IF secret.err # "" THEN Fail(secret.w, "unable to read secret's metadata", secret.err)
    ELSE IF ~secret.val.isNil
            /\ \E v \in decodeVersions(secret.val.versions) : v[2] = "" /\ v[1] \notin Decimal
    THEN Fail(secret.w, "unable to read secret version", "")
    ELSE deleteGotDeletePath(secretPath, f, secretMetadataPath(secret.w, f, 3, secretPath))

deleteGotMetadata(secretPath, f, secret) ==
    IF secret.err # "" THEN Fail(secret.w, "unable to read secret's metadata", secret.err)
    ELSE IF secret.val.isNil THEN Fail(secret.w, "no metadata for secret", "")
    ELSE IF \E v \in decodeVersions(secret.val.versions) : v[2] = "" /\ v[1] \notin Decimal
    THEN Fail(secret.w, "unable to read secret version", "")
    ELSE deleteGotDeletePath(secretPath, f, secretMetadataPath(secret.w, f, 3, secretPath))

deleteGotMetadataPath(secretPath, f, mp) ==
    IF mp.err # "" THEN Fail(mp.w, "invalid path for metadata", mp.err)
    ELSE deleteGotMetadata(secretPath, f, LogicalRead(mp.w, f, 2, mp.val))

DeleteSecret(w, secretPath, f) ==
    deleteGotMetadataPath(secretPath, f, secretMetadataPath(w, f, 1, secretPath))

\* DeleteSecret when the metadata object that its read returns lists the
\* given versions, each << key, deletion_time >>.
deleteGotMetadataListing(secretPath, f, secret, versions) ==
    deleteGotMetadata(secretPath, f,
        IF secret.err = "" /\ ~secret.val.isNil
        THEN [secret EXCEPT !.val.versions = versions]
        ELSE secret)

DeleteSecretListing(w, secretPath, f, versions) ==
    LET mp == secretMetadataPath(w, f, 1, secretPath) IN
    IF mp.err # "" THEN deleteGotMetadataPath(secretPath, f, mp)
    ELSE deleteGotMetadataListing(secretPath, f, LogicalRead(mp.w, f, 2, mp.val), versions)

\* ---------------------------------------- terraform-plugin-framework

\* A null attribute value; ValueString of null is "", ValueBool is false.
TFNull == "<null>"

ValueString(x) == IF x = TFNull THEN "" ELSE x

ValueBool(x) == x = "true"

\* types.Map: null, or known with elements.
NullMap == [isNull |-> TRUE, elems |-> {}]

KnownMap(m) == [isNull |-> FALSE, elems |-> m]

Diag(summary, subject) == [summary |-> summary, subject |-> subject]

\* What a handler leaves: the world, its diagnostics, whether it crashed,
\* and what it did with the state ("keep", "set" to state, "remove").
Resp(w, errors, warnings, stateOp, state) ==
    [w |-> w, errors |-> errors, warnings |-> warnings, crashed |-> FALSE,
     stateOp |-> stateOp, state |-> state]

Crash(w, state) ==
    [w |-> w, errors |-> << >>, warnings |-> << >>, crashed |-> TRUE,
     stateOp |-> "keep", state |-> state]

\* The VaultApi calls a handler made, in order, with their results.
Op(w, name, path, err) ==
    [w EXCEPT !.ops = Append(@, [op |-> name, path |-> path, err |-> err.msg])]

\* base64.StdEncoding.EncodeToString on the key material of the model.
Base64(k) ==
    CASE k = "kA" -> "a0E="
      [] k = "kB" -> "a0I="
      [] k = "pA" -> "cEE="
      [] k = "pB" -> "cEI="
      [] k = "pAkA" -> "cEFrQQ=="
      [] k = "pBkB" -> "cEJrQg=="
      [] OTHER -> "AA=="

SecretDataKey == "secret"

\* ------------------------------------ resource_keypair: KeyPairSecret

NoKPState ==
    [present |-> FALSE, base_path |-> << >>, type |-> TFNull,
     metadata |-> NullMap, force_destroy |-> TFNull]

AsState(plan) ==
    [present |-> TRUE, base_path |-> plan.base_path, type |-> plan.type,
     metadata |-> plan.metadata, force_destroy |-> plan.force_destroy]

\* ImportState: the state holds the identifier as base_path, nothing else.
KeyPairImportState(id) == [NoKPState EXCEPT !.present = TRUE, !.base_path = id]

\* Child paths joined to the base path as it is given.
keypairPathsUntrimmed(basePath) ==
    << (basePath \o << "/" >>) \o PrivateKeyPart,
       (basePath \o << "/" >>) \o PublicKeyPart >>

keypairPaths(basePath) ==
    << (TrimRightSlash(basePath) \o << "/" >>) \o PrivateKeyPart,
       (TrimRightSlash(basePath) \o << "/" >>) \o PublicKeyPart >>

\* The plan's metadata elements (none when the attribute is null).
planElements(plan) == IF ~plan.metadata.isNull THEN plan.metadata.elems ELSE {}

\* customMetadata of Create when the private half is stored.
privateMetadataOfCreate(plan, publicKeyPath) ==
    MapPut(MapPut(MapPut(MapPut(planElements(plan),
        SecretTypeMetadata, ValueString(plan.type)),
        SecretLengthMetadata, Curve25519KeySizeStr),
        KeyPairLinkedSecretMetadata, publicKeyPath),
        KeyPairPartMetadata, PrivateKeyPart)

\* A Create that stores the public half with the map as the private half
\* left it.
publicMetadataNotRelinked(customMetadata, privateKeyPath) == customMetadata

\* customMetadata of Create when the public half is stored: the same map
\* with the linkage keys overwritten.
publicMetadataOfCreate(customMetadata, privateKeyPath) ==
    MapPut(MapPut(customMetadata, KeyPairLinkedSecretMetadata, privateKeyPath),
           KeyPairPartMetadata, PublicKeyPart)

\* A Create that ignores the outcome of the compensating delete.
kpCreateRollbackUnchecked(privateKeyPath, publicKeyPath, rb) ==
    Resp(Op(rb.w, "DeleteSecret", privateKeyPath, rb.err),
         << Diag("Error creating public key", publicKeyPath) >>, << >>,
         "keep", NoKPState)

\* Create after the compensating delete rb.
kpCreateRolledBack(privateKeyPath, publicKeyPath, rb) ==
    IF rb.err # NoErr
    THEN Resp(Op(rb.w, "DeleteSecret", privateKeyPath, rb.err),
              << Diag("Error creating public key", publicKeyPath) >>,
              << Diag("Rollback failed after public key creation error",
                      privateKeyPath) >>, "keep", NoKPState)
    ELSE Resp(Op(rb.w, "DeleteSecret", privateKeyPath, rb.err),
              << Diag("Error creating public key", publicKeyPath) >>,
              << >>, "keep", NoKPState)

\* A Create that reports the failure of the public half and leaves the
\* private half where it is.
kpCreateNoRollback(plan, f3, privateKeyPath, publicKeyPath, c2) ==
    IF c2.err # NoErr
    THEN Resp(Op(c2.w, "CreateSecret", publicKeyPath, c2.err),
              << Diag("Error creating public key", publicKeyPath) >>, << >>,
              "keep", NoKPState)
    ELSE Resp(Op(c2.w, "CreateSecret", publicKeyPath, c2.err), << >>, << >>,
              "set", AsState(plan))

\* Create after the CreateSecret c2 of the public half.
kpCreateStoredPublic(plan, f3, privateKeyPath, publicKeyPath, c2) ==
    IF c2.err # NoErr
    THEN kpCreateRolledBack(privateKeyPath, publicKeyPath,
            DeleteSecret(Op(c2.w, "CreateSecret", publicKeyPath, c2.err),
                         privateKeyPath, f3))
    ELSE Resp(Op(c2.w, "CreateSecret", publicKeyPath, c2.err), << >>, << >>,
              "set", AsState(plan))

\* A Create that goes on to the public half whatever became of the private
\* half.
kpCreatePublicRegardless(plan, gen, f2, f3, privateKeyPath, publicKeyPath, c1) ==
    kpCreateStoredPublic(plan, f3, privateKeyPath, publicKeyPath,
        CreateSecret(Op(c1.w, "CreateSecret", privateKeyPath, c1.err),
                     [Path |-> publicKeyPath,
                      Data |-> { << SecretDataKey, Base64(gen.publicKey) >> },
                      Metadata |-> publicMetadataOfCreate(
                                      privateMetadataOfCreate(plan, publicKeyPath),
                                      privateKeyPath)],
                     f2))

\* Create after the CreateSecret c1 of the private half.
kpCreateStoredPrivate(plan, gen, f2, f3, privateKeyPath, publicKeyPath, c1) ==
    IF c1.err # NoErr
    THEN Resp(Op(c1.w, "CreateSecret", privateKeyPath, c1.err),
              << Diag("Error creating private key", privateKeyPath) >>, << >>,
              "keep", NoKPState)
    ELSE kpCreateStoredPublic(plan, f3, privateKeyPath, publicKeyPath,
            CreateSecret(Op(c1.w, "CreateSecret", privateKeyPath, c1.err),
                         [Path |-> publicKeyPath,
                          Data |-> { << SecretDataKey, Base64(gen.publicKey) >> },
                          Metadata |-> publicMetadataOfCreate(
                                          privateMetadataOfCreate(plan, publicKeyPath),
                                          privateKeyPath)],
                         f2))

\* Create: gen is the outcome of GenerateCurve25519Keypair, f1, f2, f3 the
\* faults of the two CreateSecret calls and of the compensating delete.
KeyPairCreate(w, plan, gen, f1, f2, f3) ==
    IF ValueString(plan.type) # Curve25519KeyPairType
    THEN Resp(w, << Diag("Error creating secret", << >>) >>, << >>, "keep", NoKPState)
    ELSE IF ~gen.ok
    THEN Resp(w, << Diag("Error creating Curve25519 keypair", << >>) >>, << >>,
              "keep", NoKPState)
    ELSE kpCreateStoredPrivate(plan, gen, f2, f3,
            keypairPaths(plan.base_path)[1], keypairPaths(plan.base_path)[2],
            CreateSecret(w, [Path |-> keypairPaths(plan.base_path)[1],
                             Data |-> { << SecretDataKey, Base64(gen.privateKey) >> },
                             Metadata |-> privateMetadataOfCreate(plan,
                                             keypairPaths(plan.base_path)[2])],
                         f1))

\* A Read that filters secret_type and secret_length only.
kpAdditionalWithLinkage(customMetadata) ==
    { e \in customMetadata : e[1] \notin { SecretTypeMetadata, SecretLengthMetadata } }

\* The user metadata Read exposes: the stored map without the reserved keys.
kpAdditionalMetadata(customMetadata) ==
    { e \in customMetadata :
        e[1] \notin { SecretTypeMetadata, SecretLengthMetadata,
                      KeyPairLinkedSecretMetadata, KeyPairPartMetadata } }

\* A Read that keeps the resource, with an error, while the store holds the
\* public half.
kpReadGotCheckedPublic(data, privateKeyPath, r) ==
    IF Panicked(r.err) THEN Crash(Op(r.w, "ReadSecret", privateKeyPath, r.err), data)
    ELSE IF r.err # NoErr
    THEN Resp(Op(r.w, "ReadSecret", privateKeyPath, r.err),
              << Diag("Error reading secret", privateKeyPath) >>, << >>, "keep", data)
    ELSE IF r.val.isNil /\ sanitizePath(keypairPaths(data.base_path)[2]) \in DOMAIN r.w.kv
    THEN Resp(Op(r.w, "ReadSecret", privateKeyPath, r.err),
              << Diag("Error reading secret", privateKeyPath) >>, << >>, "keep", data)
    ELSE IF r.val.isNil
    THEN Resp(Op(r.w, "ReadSecret", privateKeyPath, r.err), << >>, << >>,
              "remove", NoKPState)
    ELSE Resp(Op(r.w, "ReadSecret", privateKeyPath, r.err), << >>, << >>, "set",
              [data EXCEPT
                 !.type = IF SecretTypeMetadata \in MapKeys(r.val.Metadata)
                          THEN MapGet(r.val.Metadata, SecretTypeMetadata) ELSE @,
                 !.metadata = KnownMap(kpAdditionalMetadata(r.val.Metadata)),
                 !.force_destroy = IF @ = TFNull THEN "false" ELSE @])

\* Read after the ReadSecret r of the private half.
kpReadGot(data, privateKeyPath, r) ==
    IF Panicked(r.err) THEN Crash(Op(r.w, "ReadSecret", privateKeyPath, r.err), data)
    ELSE IF r.err # NoErr
    THEN Resp(Op(r.w, "ReadSecret", privateKeyPath, r.err),
              << Diag("Error reading secret", privateKeyPath) >>, << >>, "keep", data)
    ELSE IF r.val.isNil
    THEN Resp(Op(r.w, "ReadSecret", privateKeyPath, r.err), << >>, << >>,
              "remove", NoKPState)
    ELSE Resp(Op(r.w, "ReadSecret", privateKeyPath, r.err), << >>, << >>, "set",
              [data EXCEPT
                 !.type = IF SecretTypeMetadata \in MapKeys(r.val.Metadata)
                          THEN MapGet(r.val.Metadata, SecretTypeMetadata) ELSE @,
                 !.metadata = KnownMap(kpAdditionalMetadata(r.val.Metadata)),
                 !.force_destroy = IF @ = TFNull THEN "false" ELSE @])

\* Read: f the fault of the ReadSecret call.
KeyPairRead(w, data, f) ==
    kpReadGot(data, keypairPaths(data.base_path)[1],
              ReadSecret(w, keypairPaths(data.base_path)[1], f))

\* An Update whose two writes carry one map, as the public half left it.
halfMetadataShared(plan, state, linkedPath, part) ==
    MapPut(MapPut(MapPut(MapPut(plan.metadata.elems,
        SecretTypeMetadata, ValueString(state.type)),
        SecretLengthMetadata, Curve25519KeySizeStr),
        KeyPairLinkedSecretMetadata, keypairPaths(state.base_path)[1]),
        KeyPairPartMetadata, PublicKeyPart)

\* privateMetadata and publicMetadata of Update: each built from userMetadata.
halfMetadataOfUpdate(plan, state, linkedPath, part) ==
    MapPut(MapPut(MapPut(MapPut(plan.metadata.elems,
        SecretTypeMetadata, ValueString(state.type)),
        SecretLengthMetadata, Curve25519KeySizeStr),
        KeyPairLinkedSecretMetadata, linkedPath),
        KeyPairPartMetadata, part)

\* Update after the UpdateSecretMetadata u2 of the public half.
kpUpdateWrotePublic(plan, state, publicKeyPath, u2) ==
    IF Panicked(u2.err)
    THEN Crash(Op(u2.w, "UpdateSecretMetadata", publicKeyPath, u2.err), state)
    ELSE IF u2.err # NoErr
    THEN Resp(Op(u2.w, "UpdateSecretMetadata", publicKeyPath, u2.err),
              << Diag("Error updating secret", publicKeyPath) >>, << >>, "keep", state)
    ELSE Resp(Op(u2.w, "UpdateSecretMetadata", publicKeyPath, u2.err), << >>, << >>,
              "set", [state EXCEPT !.metadata = plan.metadata,
                                   !.force_destroy = plan.force_destroy])

\* Update after the UpdateSecretMetadata u1 of the private half.
kpUpdateWrotePrivate(plan, state, f2, privateKeyPath, publicKeyPath, u1) ==
    IF Panicked(u1.err)
    THEN Crash(Op(u1.w, "UpdateSecretMetadata", privateKeyPath, u1.err), state)
    ELSE IF u1.err # NoErr
    THEN Resp(Op(u1.w, "UpdateSecretMetadata", privateKeyPath, u1.err),
              << Diag("Error updating secret", privateKeyPath) >>, << >>, "keep", state)
    ELSE kpUpdateWrotePublic(plan, state, publicKeyPath,
            UpdateSecretMetadata(Op(u1.w, "UpdateSecretMetadata", privateKeyPath, u1.err),
                publicKeyPath,
                halfMetadataOfUpdate(plan, state, privateKeyPath, PublicKeyPart),
                f2))

\* Update: f1, f2 the faults of the two UpdateSecretMetadata calls.
KeyPairUpdate(w, plan, state, f1, f2) ==
    kpUpdateWrotePrivate(plan, state, f2,
        keypairPaths(state.base_path)[1], keypairPaths(state.base_path)[2],
        UpdateSecretMetadata(w, keypairPaths(state.base_path)[1],
            halfMetadataOfUpdate(plan, state, keypairPaths(state.base_path)[2],
                                 PrivateKeyPart),
            f1))

\* Delete after the DeleteSecret d2 of the public half.
kpDeleteDeletedPublic(state, privateKeyPath, publicKeyPath, d2) ==
    IF d2.err # NoErr
    THEN Resp(Op(d2.w, "DeleteSecret", publicKeyPath, d2.err),
              << Diag("Error deleting public key", publicKeyPath) >>,
              << Diag("Partial deletion: private key already deleted",
                      privateKeyPath) >>, "keep", state)
    ELSE Resp(Op(d2.w, "DeleteSecret", publicKeyPath, d2.err), << >>, << >>,
              "remove", NoKPState)

\* A Delete that goes on to the public half whatever became of the private
\* half.
kpDeleteBothRegardless(state, f2, privateKeyPath, publicKeyPath, d1) ==
    kpDeleteDeletedPublic(state, privateKeyPath, publicKeyPath,
        DeleteSecret(Op(d1.w, "DeleteSecret", privateKeyPath, d1.err),
                     publicKeyPath, f2))

\* Delete after the DeleteSecret d1 of the private half.
kpDeleteDeletedPrivate(state, f2, privateKeyPath, publicKeyPath, d1) ==
    IF d1.err # NoErr
    THEN Resp(Op(d1.w, "DeleteSecret", privateKeyPath, d1.err),
              << Diag("Error deleting private key", privateKeyPath) >>, << >>,
              "keep", state)
    ELSE kpDeleteDeletedPublic(state, privateKeyPath, publicKeyPath,
            DeleteSecret(Op(d1.w, "DeleteSecret", privateKeyPath, d1.err),
                         publicKeyPath, f2))

\* A Delete without the force_destroy guard.
kpDeleteUnguarded(state) == TRUE

\* The force_destroy guard of Delete.
kpDeleteAllowed(state) == ValueBool(state.force_destroy)

\* Delete: f1, f2 the faults of the two DeleteSecret calls.  Without an
\* error the framework removes the resource from the state.
KeyPairDelete(w, state, f1, f2) ==
    IF ~kpDeleteAllowed(state)
    THEN Resp(w, << Diag("Error deleting key pair", state.base_path) >>, << >>,
              "keep", state)
    ELSE kpDeleteDeletedPrivate(state, f2,
            keypairPaths(state.base_path)[1], keypairPaths(state.base_path)[2],
            DeleteSecret(w, keypairPaths(state.base_path)[1], f1))

\* -------------------------------------- resource_random: RandomSecret

RandomBytesType == "random_secret"

Curse25519KeypairType == "curve25519_keypair"

DefaultRandomBytesLength == 32

DefaultCurve25519KeypairLength == 64

\* fmt.Sprintf("%d", n), types.Int64.String() and strconv.Atoi on the
\* lengths of the model.
Itoa(n) ==
    CASE n = 16 -> "16"
      [] n = 32 -> "32"
      [] n = 64 -> "64"
      [] OTHER -> "0"

AtoiOK(v) == v \in { "0", "16", "32", "64" }

Atoi(v) ==
    CASE v = "16" -> 16
      [] v = "32" -> 32
      [] v = "64" -> 64
      [] OTHER -> 0

NoRSState ==
    [present |-> FALSE, path |-> << >>, type |-> TFNull, length |-> 0,
     metadata |-> NullMap, force_destroy |-> TFNull]

AsRSState(plan) ==
    [present |-> TRUE, path |-> plan.path, type |-> plan.type, length |-> plan.length,
     metadata |-> plan.metadata, force_destroy |-> plan.force_destroy]

\* ImportState: the state holds the identifier as path, nothing else.
RandomImportState(id) == [NoRSState EXCEPT !.present = TRUE, !.path = id]

\* key and secretLength of Create.
rsKey(plan, gen) ==
    IF ValueString(plan.type) = RandomBytesType THEN gen.privateKey
    ELSE gen.publicKey \o gen.privateKey

\* The bytes of a key that ecdh.X25519 generates.
X25519KeyLen == 32

\* len(key): GenerateRandomSecret(n) returns n bytes, the keypair is the
\* public key followed by the private key.
rsKeyLen(plan) ==
    IF ValueString(plan.type) = RandomBytesType THEN plan.length
    ELSE X25519KeyLen + X25519KeyLen

rsSecretLength(plan) ==
    IF ValueString(plan.type) = RandomBytesType THEN plan.length
    ELSE rsKeyLen(plan)

\* A length that is not known at plan time (known lengths are at least 1).
UnknownLength == -1

\* What ModifyPlan leaves: the plan of the response and its diagnostics.
PlanResp(plan, errors) == [plan |-> plan, errors |-> errors]

\* A ModifyPlan that sets the length of a keypair whatever was configured.
RandomModifyPlanUnchecked(plan) ==
    IF ValueString(plan.type) = RandomBytesType
    THEN IF plan.length = UnknownLength
         THEN PlanResp([plan EXCEPT !.length = DefaultRandomBytesLength], << >>)
         ELSE PlanResp(plan, << >>)
    ELSE IF ValueString(plan.type) = Curse25519KeypairType
    THEN PlanResp([plan EXCEPT !.length = DefaultCurve25519KeypairLength], << >>)
    ELSE PlanResp(plan, << >>)

\* ModifyPlan on the plan of a resource that is not planned for destruction.
RandomModifyPlan(plan) ==
    IF ValueString(plan.type) = RandomBytesType
    THEN IF plan.length = UnknownLength
         THEN PlanResp([plan EXCEPT !.length = DefaultRandomBytesLength], << >>)
         ELSE PlanResp(plan, << >>)
    ELSE IF ValueString(plan.type) = Curse25519KeypairType
    THEN IF plan.length # UnknownLength /\ plan.length # DefaultCurve25519KeypairLength
         THEN PlanResp(plan, << Diag("Error creating Curve25519 keypair", << >>) >>)
         ELSE PlanResp([plan EXCEPT !.length = DefaultCurve25519KeypairLength], << >>)
    ELSE PlanResp(plan, << >>)

\* customMetadata of a Create that sets the reserved keys first and copies
\* the plan's elements over them.
rsMetadataUserWins(plan) ==
    planElements(plan) \cup
    { e \in { << SecretTypeMetadata, ValueString(plan.type) >>,
              << SecretLengthMetadata, Itoa(rsSecretLength(plan)) >> } :
        e[1] \notin MapKeys(planElements(plan)) }

rsMetadataOfCreate(plan) ==
    MapPut(MapPut(planElements(plan), SecretTypeMetadata, ValueString(plan.type)),
           SecretLengthMetadata, Itoa(rsSecretLength(plan)))

\* A Create that keeps the stored data of the secret among the metadata of
\* the state.
rsCreateStoredLeaky(plan, c) ==
    IF c.err # NoErr
    THEN Resp(Op(c.w, "CreateSecret", plan.path, c.err),
              << Diag("Error creating random key", plan.path) >>, << >>,
              "keep", NoRSState)
    ELSE Resp(Op(c.w, "CreateSecret", plan.path, c.err), << >>, << >>, "set",
              AsRSState([plan EXCEPT
                  !.length = rsSecretLength(plan),
                  !.metadata = KnownMap(planElements(plan)
                                  \cup c.w.kv[sanitizePath(plan.path)].data)]))

\* Create after the CreateSecret c.
rsCreateStored(plan, c) ==
    IF c.err # NoErr
    THEN Resp(Op(c.w, "CreateSecret", plan.path, c.err),
              << Diag("Error creating random key", plan.path) >>, << >>,
              "keep", NoRSState)
    ELSE Resp(Op(c.w, "CreateSecret", plan.path, c.err), << >>, << >>, "set",
              AsRSState([plan EXCEPT !.length = rsSecretLength(plan)]))

\* Create: gen is the outcome of the generator, f the fault of CreateSecret.
RandomCreate(w, plan, gen, f) ==
    IF ValueString(plan.type) \notin { RandomBytesType, Curse25519KeypairType }
    THEN Resp(w, << Diag("Error creating secret", << >>) >>, << >>, "keep", NoRSState)
    ELSE IF ~gen.ok
    THEN Resp(w, << Diag(IF ValueString(plan.type) = RandomBytesType
                         THEN "Error creating random key"
                         ELSE "Error creating Curve25519 keypair", << >>) >>,
              << >>, "keep", NoRSState)
    ELSE rsCreateStored(plan,
            CreateSecret(w, [Path |-> plan.path,
                             Data |-> { << SecretDataKey, Base64(rsKey(plan, gen)) >> },
                             Metadata |-> rsMetadataOfCreate(plan)], f))

\* The state Read builds from the stored custom metadata.
rsStateOfRead(data, customMetadata) ==
    IF customMetadata = {} THEN data
    ELSE [data EXCEPT
            !.type = IF SecretTypeMetadata \in MapKeys(customMetadata)
                     THEN MapGet(customMetadata, SecretTypeMetadata) ELSE @,
            !.length = IF SecretLengthMetadata \in MapKeys(customMetadata)
                       THEN Atoi(MapGet(customMetadata, SecretLengthMetadata)) ELSE @,
            !.metadata = KnownMap({ e \in customMetadata :
                e[1] \notin { SecretTypeMetadata, SecretLengthMetadata } })]

\* A Read that reports an absent secret as an error and keeps the state.
rsReadGotAbsentIsError(data, r) ==
    IF Panicked(r.err) THEN Crash(Op(r.w, "ReadSecret", data.path, r.err), data)
    ELSE IF r.err # NoErr \/ r.val.isNil
    THEN Resp(Op(r.w, "ReadSecret", data.path, r.err),
              << Diag("Error reading secret", data.path) >>, << >>, "keep", data)
    ELSE Resp(Op(r.w, "ReadSecret", data.path, r.err), << >>, << >>, "set",
              [rsStateOfRead(data, r.val.Metadata)
                 EXCEPT !.force_destroy = IF @ = TFNull THEN "false" ELSE @])

\* Read after the ReadSecret r.
rsReadGot(data, r) ==
    IF Panicked(r.err) THEN Crash(Op(r.w, "ReadSecret", data.path, r.err), data)
    ELSE IF r.err # NoErr
    THEN Resp(Op(r.w, "ReadSecret", data.path, r.err),
              << Diag("Error reading secret", data.path) >>, << >>, "keep", data)
    ELSE IF r.val.isNil
    THEN Resp(Op(r.w, "ReadSecret", data.path, r.err), << >>, << >>, "remove", NoRSState)
    ELSE IF /\ SecretLengthMetadata \in MapKeys(r.val.Metadata)
            /\ ~AtoiOK(MapGet(r.val.Metadata, SecretLengthMetadata))
    THEN Resp(Op(r.w, "ReadSecret", data.path, r.err),
              << Diag("Error reading secret length", data.path) >>, << >>, "keep", data)
    ELSE Resp(Op(r.w, "ReadSecret", data.path, r.err), << >>, << >>, "set",
              [rsStateOfRead(data, r.val.Metadata)
                 EXCEPT !.force_destroy = IF @ = TFNull THEN "false" ELSE @])

RandomRead(w, data, f) == rsReadGot(data, ReadSecret(w, data.path, f))

\* An Update that writes the plan's metadata as they are.
rsMetadataUserOnly(plan) == plan.metadata.elems

rsMetadataOfUpdate(plan) ==
    MapPut(MapPut(plan.metadata.elems, SecretTypeMetadata, ValueString(plan.type)),
           SecretLengthMetadata, Itoa(plan.length))

\* Update after the UpdateSecretMetadata u.
rsUpdateWrote(plan, state, u) ==
    IF Panicked(u.err)
    THEN Crash(Op(u.w, "UpdateSecretMetadata", state.path, u.err), state)
    ELSE IF u.err # NoErr
    THEN Resp(Op(u.w, "UpdateSecretMetadata", state.path, u.err),
              << Diag("Error updating secret", state.path) >>, << >>, "keep", state)
    ELSE Resp(Op(u.w, "UpdateSecretMetadata", state.path, u.err), << >>, << >>, "set",
              [state EXCEPT !.metadata = plan.metadata,
                            !.force_destroy = plan.force_destroy])

\* An Update without the comparison of the paths.
RandomUpdateUnchecked(w, plan, state, f) ==
    rsUpdateWrote(plan, state,
        UpdateSecretMetadata(w, state.path, rsMetadataOfUpdate(plan), f))

RandomUpdate(w, plan, state, f) ==
    IF state.path # plan.path
    THEN Resp(w, << Diag("Error updating random key", state.path) >>, << >>, "keep", state)
    ELSE rsUpdateWrote(plan, state,
            UpdateSecretMetadata(w, state.path, rsMetadataOfUpdate(plan), f))

\* Delete after the DeleteSecret d.
rsDeleteDeleted(state, d) ==
    IF d.err # NoErr
    THEN Resp(Op(d.w, "DeleteSecret", state.path, d.err),
              << Diag("Error deleting secret", state.path) >>, << >>, "keep", state)
    ELSE Resp(Op(d.w, "DeleteSecret", state.path, d.err), << >>, << >>,
              "remove", NoRSState)

\* The force_destroy guard of Delete.
rsDeleteAllowed(state) == ValueBool(state.force_destroy)

RandomDelete(w, state, f) ==
    IF ~rsDeleteAllowed(state)
    THEN Resp(w, << Diag("Error deleting secret", state.path) >>, << >>, "keep", state)
    ELSE rsDeleteDeleted(state, DeleteSecret(w, state.path, f))

\* ------------------------------------------------------------- inputs

KvFoo == << "/", "k", "v", "/", "f", "o", "o" >>

KvFooBare == << "k", "v", "/", "f", "o", "o", "/" >>

V1Foo == << "/", "v", "1", "/", "f", "o", "o" >>

KvKp == << "/", "k", "v", "/", "k", "p" >>

KvKpSlash == << "/", "k", "v", "/", "k", "p", "/" >>

\* Logical paths given to VaultApi directly: two spellings of one secret of
\* the KV-v2 mount and a path of the KV-v1 mount.
ApiPaths == { KvFoo, KvFooBare, V1Foo }

RandomPaths == { KvFoo }

BasePaths == { KvKpSlash }

DataVals == { { << SecretDataKey, Base64("kA") >> }, { << SecretDataKey, Base64("kB") >> } }

ReservedOfRandom == { << SecretTypeMetadata, RandomBytesType >>, << SecretLengthMetadata, "32" >> }

UserMetas == { { << "owner", "a" >>, << "team", "x" >> }, { << "owner", "b" >> } }

\* Metadata maps given to VaultApi directly: built by a caller, so they
\* hold the reserved keys.
ApiMetas == { ReservedOfRandom \cup u : u \in UserMetas }

PlanMetas == { NullMap } \cup { KnownMap(u) : u \in UserMetas }

ForceDestroys == { "true", "false" }

GenFailed == [ok |-> FALSE, privateKey |-> "", publicKey |-> ""]

Gens == { [ok |-> TRUE, privateKey |-> "kA", publicKey |-> "pA"], GenFailed }

KeyPairPlans ==
    [base_path : BasePaths, type : { Curve25519KeyPairType },
     metadata : PlanMetas, force_destroy : ForceDestroys]

\* The last map names the reserved keys with values of the user's own.
RandomMetas ==
    { NullMap, KnownMap({ << "owner", "b" >> }),
      KnownMap({ << SecretTypeMetadata, "mine" >>, << SecretLengthMetadata, "7" >> }) }

RandomPlans ==
    [path : RandomPaths, type : { RandomBytesType }, length : { 16 },
     metadata : RandomMetas, force_destroy : ForceDestroys]
    \cup
    [path : RandomPaths, type : { Curse25519KeypairType },
     length : { DefaultCurve25519KeypairLength },
     metadata : RandomMetas, force_destroy : ForceDestroys]

\* The plans an Update is called with.  Terraform plans a replacement when
\* base_path, path, type or length change, so its plans hold the state's
\* values for them; the handlers themselves take any plan, and the last
\* plans of each set change one of these attributes.
KvKpOther == << "/", "k", "v", "/", "k", "q" >>

KeyPairUpdatePlans(state) ==
    [base_path : { state.base_path }, type : { state.type },
     metadata : PlanMetas, force_destroy : ForceDestroys]
    \cup
    [base_path : { KvKpOther }, type : { state.type },
     metadata : { KnownMap({ << "owner", "b" >> }) }, force_destroy : { "true" }]
    \cup
    [base_path : { state.base_path }, type : { Curse25519KeypairType },
     metadata : { KnownMap({ << "owner", "b" >> }) }, force_destroy : { "true" }]

RandomUpdatePlans(state) ==
    [path : { state.path }, type : { state.type }, length : { state.length },
     metadata : RandomMetas, force_destroy : ForceDestroys]
    \cup
    [path : { KvFooBare }, type : { state.type }, length : { state.length },
     metadata : { KnownMap({ << "owner", "b" >> }) }, force_destroy : { "true" }]

\* The plans ModifyPlan is given for a resource to create: type is the
\* configured one or the schema's default, length the configured one or
\* unknown (the attribute is computed and has no default).
ConfiguredLengths == { UnknownLength, 16, 32, 64 }

RandomProposedPlans ==
    [path : RandomPaths, type : { RandomBytesType, Curse25519KeypairType, "aes" },
     length : ConfiguredLengths,
     metadata : { NullMap, KnownMap({ << "owner", "b" >> }) },
     force_destroy : ForceDestroys]

\* Base paths given to keypairPaths on its own: the strings of at most
\* MaxPathLen characters over the separator and the letters of the mount.
PathStrings ==
    UNION { [1..n -> { "/", "k", "v" }] : n \in 0..MaxPathLen }

Trailers == { << >>, << "/" >>, << "/", "/" >> }

\* The faults of an operation of n store calls: none, or a transport error
\* at one of them.
Faults(n) == { NoFault } \cup { [at |-> k, kind |-> "transport"] : k \in 1..n }

\* The mount-discovery endpoint answers 404 to the probe that opens an
\* operation.
ProbeFaults == { [at |-> 1, kind |-> "404"] }

\* The faults of an operation of n store calls under a resource handler:
\* none, or a transport error at its first call (the mount probe) or at its
\* last call (the write or delete that ends it).
EdgeFaults(n) == { NoFault, [at |-> 1, kind |-> "transport"], [at |-> n, kind |-> "transport"] }

\* The faults of a handler of two operations: the second operation runs
\* only when the first succeeded.
Faults2(n1, n2) ==
    { << f1, NoFault >> : f1 \in EdgeFaults(n1) } \cup
    { << NoFault, f2 >> : f2 \in EdgeFaults(n2) }

\* The generator outcome and the faults of Create: the store is called only
\* with a generated key, and the compensating delete runs only when the
\* first CreateSecret succeeded and the second failed.
CreateRuns ==
    { << GenFailed, NoFault, NoFault, NoFault >> } \cup
    { << g, f1, NoFault, NoFault >> : g \in Gens \ { GenFailed }, f1 \in EdgeFaults(5) } \cup
    { << g, NoFault, f2, f3 >> :
        g \in Gens \ { GenFailed }, f2 \in EdgeFaults(5) \ { NoFault },
        f3 \in EdgeFaults(4) }

\* ----------------------------------------- inputs: path resolution

\* Longest logical path given to prefixSecretPath on its own.
MaxLogicalLen == 5

\* Most segments of a mount path answered to it.
MaxMountSegments == 3

\* Logical paths: the strings over the separator and two letters.
LogicalPaths ==
    UNION { [1..n -> { "/", "k", "n" }] : n \in 1..MaxLogicalLen }

\* Mount paths as the server reports them: one-letter segments, each
\* followed by the separator; with more than one segment the leading ones
\* may be a namespace.
RECURSIVE MountPathsOf(_)
MountPathsOf(n) ==
    IF n = 0 THEN { << >> }
    ELSE { << c, "/" >> \o m : c \in { "k", "n" }, m \in MountPathsOf(n - 1) }

MountPaths == UNION { MountPathsOf(n) : n \in 1..MaxMountSegments }

ApiPrefixes == { SecretDataField, MetadataPrefix, DeletePrefix }

\* The options of an answer: none, a map without version, and version
\* strings.
AnswerOptions ==
    { NilOptions, NoVersion } \cup
    { Options(v) : v \in { "", "1", "2", "3", "02", "v2", "2.0" } }

\* What prefixSecretPath is given and answered: a path of the mount "kv/"
\* with every kind of options, and every logical path with every KV-v2
\* mount path.
ResolveInputs ==
    [secretPath : { KvFoo, KvFooBare }, prefix : ApiPrefixes,
     answer : [hasPath : BOOLEAN, path : { MountKV }, options : AnswerOptions]]
    \cup
    [secretPath : LogicalPaths, prefix : ApiPrefixes,
     answer : [hasPath : { TRUE }, path : MountPaths, options : { Options("2") }]]

\* The versions a metadata object lists: at most two, keyed by a decimal
\* number or by another string, each live or marked deleted.
ListedVersions ==
    LET one == { << k, t >> : k \in { "1", "x" }, t \in { "", DeletedAt } } IN
    { {} } \cup { { v } : v \in one }
           \cup { vs \in { { a, b } : a \in one, b \in one } :
                    \A a \in vs, b \in vs : a[1] = b[1] => a = b }

\* The settings of the client that the probe overrides: the wrapping lookup
\* function (WrapNil: none set), the output-curl-string flag and the
\* output-policy flag.  vault.NewClient(vault.DefaultConfig()) sets none.
WrapNil == "nil"

DefaultClient == [wrap |-> WrapNil, curl |-> FALSE, policy |-> FALSE]

\* ------------------------------- the mount probe, statement by statement

\* Calls that run at once on the one client of the provider.
MaxProcs == 2

WrapCustom == "custom"

\* The settings a client handed to kvPreflightVersionRequest can hold.
ClientSettings == [wrap : { WrapNil, WrapCustom }, curl : BOOLEAN, policy : BOOLEAN]

\* The statements of kvPreflightVersionRequest that read or change the
\* client, in the order they run: each getter and setter of the client is a
\* call of its own, the deferred setters run last in first out.
ProbeSteps ==
    << "getWrap", "setWrap", "getCurl", "setCurl", "getPolicy", "setPolicy",
       "request", "restorePolicy", "restoreCurl", "restoreWrap", "returned" >>

ProbeStepAfter(pc) ==
    ProbeSteps[1 + CHOOSE i \in 1..(Len(ProbeSteps) - 1) : ProbeSteps[i] = pc]

IdleProc == [pc |-> "idle"]

\* The probe as it is called, n calls after the first: its locals hold Go's
\* zero values, before is the client as the call finds it.
ProbeCalled(c, path, f, n) ==
    [pc |-> ProbeSteps[1], path |-> path, f |-> f, before |-> c, seq |-> n,
     wrap |-> WrapNil, curl |-> FALSE, policy |-> FALSE,
     sent |-> c, ret |-> [mountPath |-> << >>, version |-> 0, err |-> ""]]

\* currentX := client.X()
probeGot(c, p) ==
    CASE p.pc = "getWrap" -> [p EXCEPT !.wrap = c.wrap, !.pc = ProbeStepAfter(@)]
      [] p.pc = "getCurl" -> [p EXCEPT !.curl = c.curl, !.pc = ProbeStepAfter(@)]
      [] p.pc = "getPolicy" -> [p EXCEPT !.policy = c.policy, !.pc = ProbeStepAfter(@)]

\* client.SetX(nil or false)
probeUnset(c, p) ==
    CASE p.pc = "setWrap" -> [c EXCEPT !.wrap = WrapNil]
      [] p.pc = "setCurl" -> [c EXCEPT !.curl = FALSE]
      [] p.pc = "setPolicy" -> [c EXCEPT !.policy = FALSE]

\* The error of a 403 answer when the caller had an output flag set.
PreflightFlagError == "This output flag requires the success of a preflight request"

preflightDenied(p, r) ==
    IF r.err = "permission denied" /\ (p.curl \/ p.policy)
    THEN PreflightFlagError
    ELSE r.err

\* A probe whose setters are restored only when the request succeeded.
probeDeferredOnSuccess(p, err) ==
    IF err = "" THEN ProbeStepAfter(p.pc) ELSE "returned"

\* The statement after the request: every return runs the deferred setters.
probeDeferred(p, err) == ProbeStepAfter(p.pc)

\* client.RawRequest(r) and what follows it up to the return statement.
probeRequested(c, p, r) ==
    [p EXCEPT !.sent = c,
              !.ret = [mountPath |-> r.mountPath, version |-> r.version,
                       err |-> preflightDenied(p, r)],
              !.pc = probeDeferred(p, preflightDenied(p, r))]

\* defer client.SetX(currentX)
probeRestored(c, p) ==
    CASE p.pc = "restorePolicy" -> [c EXCEPT !.policy = p.policy]
      [] p.pc = "restoreCurl" -> [c EXCEPT !.curl = p.curl]
      [] p.pc = "restoreWrap" -> [c EXCEPT !.wrap = p.wrap]

\* The probes made: a path of the KV-v2 mount with the answer, a transport
\* error or a 404, and a path that no mount serves (answered 403).
ProbeRuns ==
    { << << "k", "v", "/", "f", "o", "o" >>, f >> :
        f \in { NoFault, [at |-> 1, kind |-> "transport"], [at |-> 1, kind |-> "404"] } }
    \cup { << << "x" >>, NoFault >> }

\* --------------------------------- CreateSecret, store call by store call

\* CreateSecret as it is called: its locals hold Go's zero values.
CreateCalled(secret, f) ==
    [pc |-> "dataPath", secret |-> secret, f |-> f, dataPath |-> << >>,
     metadataPath |-> << >>, err |-> NoErr]

CreateReturned(p, msg, cause) == [p EXCEPT !.pc = "returned", !.err = Err(msg, cause)]

\* A CreateSecret whose data write is a check-and-set: the engine refuses
\* it when the path holds a version.
createStepCas(w, p) ==
    CASE p.pc = "dataPath" ->
           LET r == secretDataPath(w, p.f, 1, p.secret.Path) IN
           [w |-> r.w,
            p |-> IF r.err # "" THEN CreateReturned(p, "invalid path for data", r.err)
                  ELSE [p EXCEPT !.dataPath = r.val, !.pc = "read"]]
      [] p.pc = "read" ->
           LET s == LogicalRead(w, p.f, 2, p.dataPath) IN
           [w |-> s.w,
            p |-> IF s.err # "" THEN CreateReturned(p, "unable to read secret's data", s.err)
                  ELSE IF ~s.val.isNil THEN CreateReturned(p, "already exists", "")
                  ELSE [p EXCEPT !.pc = "metadataPath"]]
      [] p.pc = "metadataPath" ->
           LET r == secretMetadataPath(w, p.f, 3, p.secret.Path) IN
           [w |-> r.w,
            p |-> IF r.err # "" THEN CreateReturned(p, "invalid path for metadata", r.err)
                  ELSE [p EXCEPT !.metadataPath = r.val, !.pc = "writeData"]]
      [] p.pc = "writeData" ->
           LET held == ~EnvRead(w.kv, p.dataPath).isNil
               wd == IF held
                     THEN [w |-> Called(w, "write", p.dataPath),
                           err |-> "check-and-set parameter did not match"]
                     ELSE LogicalWrite(w, p.f, 4, p.dataPath, [data |-> p.secret.Data])
           IN
           [w |-> wd.w,
            p |-> IF wd.err # "" THEN CreateReturned(p, "unable to write secret's data", wd.err)
                  ELSE [p EXCEPT !.pc = "writeMetadata"]]
      [] p.pc = "writeMetadata" ->
           LET r == createWroteMetadata(p.secret,
                        LogicalWrite(w, p.f, 5, p.metadataPath,
                                     [custom_metadata |-> p.secret.Metadata]))
           IN
           [w |-> r.w, p |-> [p EXCEPT !.pc = "returned", !.err = r.err]]

\* The next store call of a CreateSecret at p.pc, and what the code does
\* with its result up to the call after it or the return.
createStep(w, p) ==
    CASE p.pc = "dataPath" ->
           LET r == secretDataPath(w, p.f, 1, p.secret.Path) IN
           [w |-> r.w,
            p |-> IF r.err # "" THEN CreateReturned(p, "invalid path for data", r.err)
                  ELSE [p EXCEPT !.dataPath = r.val, !.pc = "read"]]
      [] p.pc = "read" ->
           LET s == LogicalRead(w, p.f, 2, p.dataPath) IN
           [w |-> s.w,
            p |-> IF s.err # "" THEN CreateReturned(p, "unable to read secret's data", s.err)
                  ELSE IF ~s.val.isNil THEN CreateReturned(p, "already exists", "")
                  ELSE [p EXCEPT !.pc = "metadataPath"]]
      [] p.pc = "metadataPath" ->
           LET r == secretMetadataPath(w, p.f, 3, p.secret.Path) IN
           [w |-> r.w,
            p |-> IF r.err # "" THEN CreateReturned(p, "invalid path for metadata", r.err)
                  ELSE [p EXCEPT !.metadataPath = r.val, !.pc = "writeData"]]
      [] p.pc = "writeData" ->
           LET wd == LogicalWrite(w, p.f, 4, p.dataPath, [data |-> p.secret.Data]) IN
           [w |-> wd.w,
            p |-> IF wd.err # "" THEN CreateReturned(p, "unable to write secret's data", wd.err)
                  ELSE [p EXCEPT !.pc = "writeMetadata"]]
      [] p.pc = "writeMetadata" ->
           LET r == createWroteMetadata(p.secret,
                        LogicalWrite(w, p.f, 5, p.metadataPath,
                                     [custom_metadata |-> p.secret.Metadata]))
           IN
           [w |-> r.w, p |-> [p EXCEPT !.pc = "returned", !.err = r.err]]

\* The secrets two callers create at one path, and the faults of their
\* store calls: none, or a transport error at a write.
CreateCalls ==
    { << [Path |-> p, Data |-> d, Metadata |-> m], f >> :
        p \in { KvFoo }, d \in DataVals, m \in ApiMetas,
        f \in { NoFault, [at |-> 4, kind |-> "transport"], [at |-> 5, kind |-> "transport"] } }

\* No call in progress.
NoProcs == << >>

\* ---------------------------------------------------------------- state

VARIABLES
    kv,        \* the store of the Vault server
    hist,      \* per key, the last HistLen successful mutations (history)
    kpState,   \* the Terraform state of the keypair resource
    rsState,   \* the Terraform state of the random-secret resource
    last,      \* the last handler call: its input, outcome and store calls
    nops,      \* handler calls so far
    client,    \* the settings of the api.Client every call goes through
    procs      \* the calls in progress on the client, each at its next step

vars == << kv, hist, kpState, rsState, last, nops, client, procs >>

World == [kv |-> kv, hist |-> hist, calls |-> << >>, ops |-> << >>]

NoLast ==
    [op |-> "none", path |-> << >>, in |-> << >>, err |-> NoErr, val |-> NoSecret,
     errors |-> << >>, warnings |-> << >>, crashed |-> FALSE, stateOp |-> "keep",
     calls |-> << >>, ops |-> << >>, preKV |-> NoKV, preHist |-> NoKV]

Init ==
    /\ kv = NoKV
    /\ hist = NoKV
    /\ kpState = NoKPState
    /\ rsState = NoRSState
    /\ last = NoLast
    /\ nops = 0
    /\ client = DefaultClient
    /\ procs = NoProcs

\* The store a behaviour of the lifecycle layer starts from: empty, or
\* holding one secret that an earlier CreateSecret stored.
EmptyWorld == [kv |-> NoKV, hist |-> NoKV, calls |-> << >>, ops |-> << >>]

SeedSecret ==
    [Path |-> KvFoo, Data |-> { << SecretDataKey, Base64("kA") >> },
     Metadata |-> ReservedOfRandom \cup { << "owner", "a" >>, << "team", "x" >> }]

SeededWorld == CreateSecret(EmptyWorld, SeedSecret, NoFault).w

\* The stores a resource is imported from or created in: empty, or holding
\* the secrets of one resource that a Create of another state stored.
SeedKeyPairPlan ==
    [base_path |-> KvKpSlash, type |-> Curve25519KeyPairType,
     metadata |-> KnownMap({ << "owner", "a" >>, << "team", "x" >> }),
     force_destroy |-> "true"]

SeedRandomPlan ==
    [path |-> KvFoo, type |-> RandomBytesType, length |-> 16,
     metadata |-> KnownMap({ << "owner", "b" >> }), force_destroy |-> "true"]

SeedGen == [ok |-> TRUE, privateKey |-> "kB", publicKey |-> "pB"]

ImportWorlds ==
    { EmptyWorld,
      KeyPairCreate(EmptyWorld, SeedKeyPairPlan, SeedGen, NoFault, NoFault, NoFault).w,
      RandomCreate(EmptyWorld, SeedRandomPlan, SeedGen, NoFault).w }

InitApi ==
    /\ \E w \in { EmptyWorld, SeededWorld } :
        /\ kv = w.kv
        /\ hist = w.hist
    /\ kpState = NoKPState
    /\ rsState = NoRSState
    /\ last = NoLast
    /\ nops = 0
    /\ client = DefaultClient
    /\ procs = NoProcs

\* What an action records of a VaultApi call made directly.
ApiLast(op, path, in, r, val) ==
    [op |-> op, path |-> path, in |-> in, err |-> r.err, val |-> val,
     errors |-> IF r.err = NoErr THEN << >> ELSE << Diag(r.err.msg, path) >>,
     warnings |-> << >>, crashed |-> Panicked(r.err), stateOp |-> "keep",
     calls |-> r.w.calls, ops |-> << >>, preKV |-> kv, preHist |-> hist]

\* What an action records of a resource handler call.
HandlerLast(op, path, in, r) ==
    [op |-> op, path |-> path, in |-> in, err |-> NoErr, val |-> NoSecret,
     errors |-> r.errors, warnings |-> r.warnings, crashed |-> r.crashed,
     stateOp |-> r.stateOp, calls |-> r.w.calls, ops |-> r.w.ops,
     preKV |-> kv, preHist |-> hist]

\* The state after a handler: diagnostics with an error, or a crash, leave
\* the state the handler was given.
StateAfter(r, old) ==
    IF r.crashed \/ r.stateOp = "keep" THEN old ELSE r.state

\* ------------------------------------------------- actions: VaultApi

apiCreateSecret ==
    /\ nops < MaxOps
    /\ \E p \in ApiPaths, d \in DataVals, m \in ApiMetas, f \in Faults(5) \cup ProbeFaults :
        LET r == CreateSecret(World, [Path |-> p, Data |-> d, Metadata |-> m], f) IN
        /\ kv' = r.w.kv
        /\ hist' = r.w.hist
        /\ last' = ApiLast("CreateSecret", p, [Data |-> d, Metadata |-> m, f |-> f],
                           r, NoSecret)
    /\ nops' = nops + 1
    /\ UNCHANGED << client, procs >>
    /\ UNCHANGED << kpState, rsState >>

apiReadSecret ==
    /\ nops < MaxOps
    /\ \E p \in ApiPaths, f \in Faults(4) \cup ProbeFaults :
        LET r == ReadSecret(World, p, f) IN
        /\ kv' = r.w.kv
        /\ hist' = r.w.hist
        /\ last' = ApiLast("ReadSecret", p, [f |-> f], r, r.val)
    /\ nops' = nops + 1
    /\ UNCHANGED << client, procs >>
    /\ UNCHANGED << kpState, rsState >>

apiUpdateSecretMetadata ==
    /\ nops < MaxOps
    /\ \E p \in ApiPaths, m \in ApiMetas, f \in Faults(3) \cup ProbeFaults :
        LET r == UpdateSecretMetadata(World, p, m, f) IN
        /\ kv' = r.w.kv
        /\ hist' = r.w.hist
        /\ last' = ApiLast("UpdateSecretMetadata", p, [Metadata |-> m, f |-> f],
                           r, NoSecret)
    /\ nops' = nops + 1
    /\ UNCHANGED << client, procs >>
    /\ UNCHANGED << kpState, rsState >>

apiDeleteSecret ==
    /\ nops < MaxOps
    /\ \E p \in ApiPaths, f \in Faults(4) \cup ProbeFaults :
        LET r == DeleteSecret(World, p, f) IN
        /\ kv' = r.w.kv
        /\ hist' = r.w.hist
        /\ last' = ApiLast("DeleteSecret", p, [f |-> f], r, NoSecret)
    /\ nops' = nops + 1
    /\ UNCHANGED << client, procs >>
    /\ UNCHANGED << kpState, rsState >>

\* DeleteSecret of a secret whose metadata object lists the versions vs.
apiDeleteSecretListing ==
    /\ nops < MaxOps
    /\ \E p \in ApiPaths, f \in Faults(4), vs \in ListedVersions :
        LET r == DeleteSecretListing(World, p, f, vs) IN
        /\ kv' = r.w.kv
        /\ hist' = r.w.hist
        /\ last' = ApiLast("DeleteSecret", p, [f |-> f, versions |-> vs], r, NoSecret)
    /\ nops' = nops + 1
    /\ UNCHANGED << kpState, rsState, client, procs >>

\* Out of band, somebody soft-deletes the latest version of a live secret
\* (DELETE <mount>/data/<key>).
envSoftDelete ==
    /\ nops < MaxOps
    /\ \E k \in DOMAIN kv :
        /\ kv[k].hasData
        /\ kv[k].deletion_time = ""
        /\ kv' = KVPut(kv, k, [kv[k] EXCEPT !.deletion_time = DeletedAt])
        /\ hist' = HistAdd(World, k, [op |-> "softdelete", path |-> k, data |-> {}, meta |-> {}]).hist
        /\ last' = [NoLast EXCEPT !.op = "envSoftDelete", !.path = k,
                                  !.preKV = kv, !.preHist = hist]
    /\ nops' = nops + 1
    /\ UNCHANGED << client, procs >>
    /\ UNCHANGED << kpState, rsState >>

\* -------------------------------------------- actions: KeyPairSecret

\* Terraform calls Create for a resource that is not in the state, and Read,
\* Update and Delete for one that is, with the state it holds.
kpCreate ==
    /\ nops < MaxOps
    /\ ~kpState.present
    /\ \E plan \in KeyPairPlans, run \in CreateRuns :
        LET r == KeyPairCreate(World, plan, run[1], run[2], run[3], run[4]) IN
        /\ kv' = r.w.kv
        /\ hist' = r.w.hist
        /\ kpState' = StateAfter(r, kpState)
        /\ last' = HandlerLast("KeyPairCreate", plan.base_path, plan, r)
    /\ nops' = nops + 1
    /\ UNCHANGED << client, procs >>
    /\ UNCHANGED rsState

kpRead ==
    /\ nops < MaxOps
    /\ kpState.present
    /\ \E f \in EdgeFaults(4) :
        LET r == KeyPairRead(World, kpState, f) IN
        /\ kv' = r.w.kv
        /\ hist' = r.w.hist
        /\ kpState' = StateAfter(r, kpState)
        /\ last' = HandlerLast("KeyPairRead", kpState.base_path, kpState, r)
    /\ nops' = nops + 1
    /\ UNCHANGED << client, procs >>
    /\ UNCHANGED rsState

kpUpdate ==
    /\ nops < MaxOps
    /\ kpState.present
    /\ \E plan \in KeyPairUpdatePlans(kpState), f \in Faults2(3, 3) :
        LET r == KeyPairUpdate(World, plan, kpState, f[1], f[2])
        IN  /\ kv' = r.w.kv
            /\ hist' = r.w.hist
            /\ kpState' = StateAfter(r, kpState)
            /\ last' = HandlerLast("KeyPairUpdate", kpState.base_path, plan, r)
    /\ nops' = nops + 1
    /\ UNCHANGED << client, procs >>
    /\ UNCHANGED rsState

kpDelete ==
    /\ nops < MaxOps
    /\ kpState.present
    /\ \E f \in Faults2(4, 4) :
        LET r == KeyPairDelete(World, kpState, f[1], f[2]) IN
        /\ kv' = r.w.kv
        /\ hist' = r.w.hist
        /\ kpState' = StateAfter(r, kpState)
        /\ last' = HandlerLast("KeyPairDelete", kpState.base_path, kpState, r)
    /\ nops' = nops + 1
    /\ UNCHANGED << client, procs >>
    /\ UNCHANGED rsState

\* --------------------------------------------- actions: RandomSecret

rsCreate ==
    /\ nops < MaxOps
    /\ ~rsState.present
    /\ \E plan \in RandomPlans, run \in { c \in CreateRuns : c[3] = NoFault } :
        LET r == RandomCreate(World, plan, run[1], run[2]) IN
        /\ kv' = r.w.kv
        /\ hist' = r.w.hist
        /\ rsState' = StateAfter(r, rsState)
        /\ last' = HandlerLast("RandomCreate", plan.path, plan, r)
    /\ nops' = nops + 1
    /\ UNCHANGED << client, procs >>
    /\ UNCHANGED kpState

rsRead ==
    /\ nops < MaxOps
    /\ rsState.present
    /\ \E f \in EdgeFaults(4) :
        LET r == RandomRead(World, rsState, f) IN
        /\ kv' = r.w.kv
        /\ hist' = r.w.hist
        /\ rsState' = StateAfter(r, rsState)
        /\ last' = HandlerLast("RandomRead", rsState.path, rsState, r)
    /\ nops' = nops + 1
    /\ UNCHANGED << client, procs >>
    /\ UNCHANGED kpState

rsUpdate ==
    /\ nops < MaxOps
    /\ rsState.present
    /\ \E plan \in RandomUpdatePlans(rsState), f \in EdgeFaults(3) :
        LET r == RandomUpdate(World, plan, rsState, f)
        IN  /\ kv' = r.w.kv
            /\ hist' = r.w.hist
            /\ rsState' = StateAfter(r, rsState)
            /\ last' = HandlerLast("RandomUpdate", rsState.path, plan, r)
    /\ nops' = nops + 1
    /\ UNCHANGED << client, procs >>
    /\ UNCHANGED kpState

rsDelete ==
    /\ nops < MaxOps
    /\ rsState.present
    /\ \E f \in EdgeFaults(4) :
        LET r == RandomDelete(World, rsState, f) IN
        /\ kv' = r.w.kv
        /\ hist' = r.w.hist
        /\ rsState' = StateAfter(r, rsState)
        /\ last' = HandlerLast("RandomDelete", rsState.path, rsState, r)
    /\ nops' = nops + 1
    /\ UNCHANGED << client, procs >>
    /\ UNCHANGED kpState

\* Terraform plans the creation of a resource: ModifyPlan on the proposed
\* plan.  last.in holds the plan given and the plan of the response.
rsModifyPlan ==
    /\ nops < MaxOps
    /\ ~rsState.present
    /\ \E plan \in RandomProposedPlans :
        last' = [NoLast EXCEPT !.op = "RandomModifyPlan", !.path = plan.path,
                               !.in = [proposed |-> plan,
                                       planned |-> RandomModifyPlan(plan).plan],
                               !.errors = RandomModifyPlan(plan).errors,
                               !.preKV = kv, !.preHist = hist]
    /\ nops' = nops + 1
    /\ UNCHANGED << client, procs >>
    /\ UNCHANGED << kv, hist, kpState, rsState >>

\* Terraform applies the plan it made last: Create with the plan of the
\* ModifyPlan response, when that reported no error.
rsCreatePlanned ==
    /\ nops < MaxOps
    /\ ~rsState.present
    /\ last.op = "RandomModifyPlan"
    /\ last.errors = << >>
    /\ \E run \in { c \in CreateRuns : c[3] = NoFault } :
        LET r == RandomCreate(World, last.in.planned, run[1], run[2]) IN
        /\ kv' = r.w.kv
        /\ hist' = r.w.hist
        /\ rsState' = StateAfter(r, rsState)
        /\ last' = HandlerLast("RandomCreate", last.in.planned.path, last.in.planned, r)
    /\ nops' = nops + 1
    /\ UNCHANGED << client, procs >>
    /\ UNCHANGED kpState

\* ------------------------------------------- actions: import, paths

\* terraform import of a resource the state does not hold.
kpImport ==
    /\ nops < MaxOps
    /\ ~kpState.present
    /\ \E id \in BasePaths :
        /\ kpState' = KeyPairImportState(id)
        /\ last' = [NoLast EXCEPT !.op = "KeyPairImport", !.path = id,
                                  !.preKV = kv, !.preHist = hist]
    /\ nops' = nops + 1
    /\ UNCHANGED << client, procs >>
    /\ UNCHANGED << kv, hist, rsState >>

rsImport ==
    /\ nops < MaxOps
    /\ ~rsState.present
    /\ \E id \in RandomPaths :
        /\ rsState' = RandomImportState(id)
        /\ last' = [NoLast EXCEPT !.op = "RandomImport", !.path = id,
                                  !.preKV = kv, !.preHist = hist]
    /\ nops' = nops + 1
    /\ UNCHANGED << client, procs >>
    /\ UNCHANGED << kv, hist, kpState >>

\* keypairPaths applied to a base path b followed by zero, one or two
\* separators; last.path is the base path given, last.in the pair returned.
kpPaths ==
    /\ nops < MaxOps
    /\ \E b \in PathStrings, t \in Trailers :
        last' = [NoLast EXCEPT !.op = "keypairPaths", !.path = b \o t,
                               !.in = keypairPaths(b \o t)]
    /\ nops' = nops + 1
    /\ UNCHANGED << client, procs >>
    /\ UNCHANGED << kv, hist, kpState, rsState >>

\* ------------------------------------------- actions: path resolution

\* prefixSecretPath applied to the input that last.in holds, the probe
\* answered with last.in.answer; last.val is the mount path and version of
\* the probe and the path and error returned.
resolvePath ==
    /\ nops < MaxOps
    /\ last.op = "input"
    /\ LET in == last.in
           partialPath == sanitizePath(in.secretPath)
           pre == preflightParsed(Called(World, "probe", partialPath), in.answer)
           r == prefixSecretPathOf(partialPath, in.prefix, isKVv2Of(pre))
       IN  last' = [last EXCEPT !.op = "prefixSecretPath", !.path = in.secretPath,
                                !.val = [mountPath |-> pre.mountPath,
                                         version |-> pre.version,
                                         path |-> r.val, err |-> r.err],
                                !.calls = r.w.calls]
    /\ nops' = nops + 1
    /\ UNCHANGED << kv, hist, kpState, rsState, client, procs >>

\* ------------------------------------------- actions: the mount probe

\* A resource operation reaches kvPreflightVersionRequest.
probeCall ==
    /\ nops < MaxOps
    /\ \E i \in DOMAIN procs, run \in ProbeRuns :
        /\ procs[i].pc = "idle"
        /\ procs' = [procs EXCEPT ![i] = ProbeCalled(client, run[1], run[2], nops)]
    /\ nops' = nops + 1
    /\ UNCHANGED << kv, hist, kpState, rsState, last, client >>

probeGet ==
    /\ \E i \in DOMAIN procs :
        /\ procs[i].pc \in { "getWrap", "getCurl", "getPolicy" }
        /\ procs' = [procs EXCEPT ![i] = probeGot(client, @)]
    /\ UNCHANGED << kv, hist, kpState, rsState, last, nops, client >>

probeSet ==
    /\ \E i \in DOMAIN procs :
        /\ procs[i].pc \in { "setWrap", "setCurl", "setPolicy" }
        /\ client' = probeUnset(client, procs[i])
        /\ procs' = [procs EXCEPT ![i].pc = ProbeStepAfter(@)]
    /\ UNCHANGED << kv, hist, kpState, rsState, last, nops >>

probeRequest ==
    /\ \E i \in DOMAIN procs :
        /\ procs[i].pc = "request"
        /\ procs' = [procs EXCEPT ![i] =
                        probeRequested(client, @,
                            kvPreflightVersionRequest(World, @.f, 1, @.path))]
    /\ UNCHANGED << kv, hist, kpState, rsState, last, nops, client >>

probeRestore ==
    /\ \E i \in DOMAIN procs :
        /\ procs[i].pc \in { "restorePolicy", "restoreCurl", "restoreWrap" }
        /\ client' = probeRestored(client, procs[i])
        /\ procs' = [procs EXCEPT ![i].pc = ProbeStepAfter(@)]
    /\ UNCHANGED << kv, hist, kpState, rsState, last, nops >>

\* --------------------------------- actions: CreateSecret, call by call

\* A caller enters CreateSecret.
crCall ==
    /\ nops < MaxOps
    /\ \E i \in DOMAIN procs, c \in CreateCalls :
        /\ procs[i].pc = "idle"
        /\ procs' = [procs EXCEPT ![i] = CreateCalled(c[1], c[2])]
    /\ nops' = nops + 1
    /\ UNCHANGED << kv, hist, kpState, rsState, last, client >>

\* A CreateSecret in progress makes its next store call; last.ops lists
\* the calls made so far, each with its caller.
crStep ==
    /\ \E i \in DOMAIN procs :
        /\ procs[i].pc \in { "dataPath", "read", "metadataPath", "writeData", "writeMetadata" }
        /\ LET r == createStep(World, procs[i]) IN
            /\ kv' = r.w.kv
            /\ hist' = r.w.hist
            /\ procs' = [procs EXCEPT ![i] = r.p]
            /\ last' = [last EXCEPT !.op = "CreateSecret", !.path = procs[i].secret.Path,
                                    !.ops = Append(@, << i, procs[i].pc >>)]
    /\ UNCHANGED << kpState, rsState, nops, client >>

\* ------------------------------------------------------ specifications

NextApi ==
    \/ apiCreateSecret
    \/ apiReadSecret
    \/ apiUpdateSecretMetadata
    \/ apiDeleteSecret
    \/ envSoftDelete

\* The secret lifecycle layer called directly.
SpecApi == InitApi /\ [][NextApi]_vars

NextKeyPair ==
    \/ kpCreate
    \/ kpRead
    \/ kpUpdate
    \/ kpDelete

\* The keypair resource under Terraform's calls.
SpecKeyPair == Init /\ [][NextKeyPair]_vars

NextResources ==
    \/ kpCreate
    \/ kpRead
    \/ kpUpdate
    \/ kpDelete
    \/ rsCreate
    \/ rsRead
    \/ rsUpdate
    \/ rsDelete

\* Both resources under Terraform's calls.
SpecResources == Init /\ [][NextResources]_vars

InitRead ==
    /\ \E w \in ImportWorlds :
        /\ kv = w.kv
        /\ hist = w.hist
    /\ kpState = NoKPState
    /\ rsState = NoRSState
    /\ last = NoLast
    /\ nops = 0
    /\ client = DefaultClient
    /\ procs = NoProcs

NextRead ==
    \/ kpCreate
    \/ kpImport
    \/ kpRead
    \/ rsCreate
    \/ rsImport
    \/ rsRead

\* Create or import, then Read: what Terraform does to take a resource in.
SpecRead == InitRead /\ [][NextRead]_vars

NextRandom ==
    \/ rsCreate
    \/ rsRead
    \/ rsUpdate
    \/ rsDelete

\* The random-secret resource under Terraform's calls.
SpecRandom == Init /\ [][NextRandom]_vars

NextPaths ==
    \/ kpPaths

\* keypairPaths on its own.
SpecPaths == Init /\ [][NextPaths]_vars

NextPlan ==
    \/ rsModifyPlan
    \/ rsCreatePlanned
    \/ rsRead

\* A random secret planned, created and read.
SpecPlan == Init /\ [][NextPlan]_vars

NextVersions ==
    \/ apiCreateSecret
    \/ apiDeleteSecretListing

\* Secrets created and deleted, the engine listing any versions for them.
SpecVersions == InitApi /\ [][NextVersions]_vars

\* MaxProcs callers of CreateSecret on an empty store, their store calls
\* interleaved.
InitCreates ==
    /\ kv = NoKV
    /\ hist = NoKV
    /\ kpState = NoKPState
    /\ rsState = NoRSState
    /\ last = NoLast
    /\ nops = 0
    /\ client = DefaultClient
    /\ procs = [i \in 1..MaxProcs |-> IdleProc]

NextCreates ==
    \/ crCall
    \/ crStep

SpecCreates == InitCreates /\ [][NextCreates]_vars

InitResolve ==
    /\ kv = NoKV
    /\ hist = NoKV
    /\ kpState = NoKPState
    /\ rsState = NoRSState
    /\ \E in \in ResolveInputs : last = [NoLast EXCEPT !.op = "input", !.in = in]
    /\ nops = 0
    /\ client = DefaultClient
    /\ procs = NoProcs

NextResolve ==
    \/ resolvePath

\* prefixSecretPath on its own, from an input and an answer of the probe.
SpecResolve == InitResolve /\ [][NextResolve]_vars

\* One probe at a time on a client of any settings.
InitProbe ==
    /\ kv = NoKV
    /\ hist = NoKV
    /\ kpState = NoKPState
    /\ rsState = NoRSState
    /\ last = NoLast
    /\ nops = 0
    /\ client \in ClientSettings
    /\ procs = << IdleProc >>

NextProbe ==
    \/ probeCall
    \/ probeGet
    \/ probeSet
    \/ probeRequest
    \/ probeRestore

SpecProbe == InitProbe /\ [][NextProbe]_vars

\* The probes of MaxProcs resource operations on the one client, their
\* statements interleaved.
InitProbes ==
    /\ kv = NoKV
    /\ hist = NoKV
    /\ kpState = NoKPState
    /\ rsState = NoRSState
    /\ last = NoLast
    /\ nops = 0
    /\ client \in ClientSettings
    /\ procs = [i \in 1..MaxProcs |-> IdleProc]

SpecProbes == InitProbes /\ [][NextProbe]_vars

Next ==
    \/ NextApi
    \/ NextResources
    \/ kpImport
    \/ rsImport
    \/ kpPaths
    \/ rsModifyPlan
    \/ rsCreatePlanned
    \/ resolvePath
    \/ NextProbe
    \/ apiDeleteSecretListing
    \/ NextCreates

Spec == Init /\ [][Next]_vars

\* ------------------------------------------------------------ properties

\* The key of the store that a logical path names.
KeyOf(p) == sanitizePath(p)

\* The mutations remembered for the key before the last call.
PreHistOf(p) ==
    IF KeyOf(p) \in DOMAIN last.preHist THEN last.preHist[KeyOf(p)] ELSE << >>

\* The last mutation of the key before the last call was op.
PrecededBy(p, op) ==
    /\ Len(PreHistOf(p)) > 0
    /\ PreHistOf(p)[Len(PreHistOf(p))].op = op

PrecedingMutation(p) == PreHistOf(p)[Len(PreHistOf(p))]

\* A CreateSecret of the key succeeded before the last call and no
\* DeleteSecret succeeded after it.
CreatedNotDeleted(p) ==
    \E i \in 1..Len(PreHistOf(p)) :
        /\ PreHistOf(p)[i].op = "create"
        /\ \A j \in (i + 1)..Len(PreHistOf(p)) : PreHistOf(p)[j].op # "delete"

NoWriteIssued == \A i \in 1..Len(last.calls) : last.calls[i][1] # "write"

\* The key held a live version before the last call.
LiveBefore(p) ==
    /\ KeyOf(p) \in DOMAIN last.preKV
    /\ last.preKV[KeyOf(p)].hasData
    /\ last.preKV[KeyOf(p)].deletion_time = ""

\* C1: a CreateSecret on a path where an earlier CreateSecret succeeded, with
\* no DeleteSecret in between, fails, issues no write and leaves the store
\* as it was; unless a store call of it failed in transport or its mount
\* probe was answered 404, its error is 'already exists'.
C1_SecondCreateRejected ==
    (last.op = "CreateSecret" /\ CreatedNotDeleted(last.path)) =>
        /\ last.err # NoErr
        /\ (last.err.cause # TransportError /\ last.in.f \notin ProbeFaults) =>
              last.err.msg = "already exists"
        /\ NoWriteIssued
        /\ kv = last.preKV

\* A second CreateSecret with other data was rejected with 'already exists'.
C1_Witness ==
    /\ last.op = "CreateSecret"
    /\ CreatedNotDeleted(last.path)
    /\ last.err.msg = "already exists"
    /\ LiveBefore(last.path)
    /\ last.in.Data # last.preKV[KeyOf(last.path)].data
    /\ last.in.Metadata # last.preKV[KeyOf(last.path)].cm
    /\ kv[KeyOf(last.path)] = last.preKV[KeyOf(last.path)]

\* C2: a ReadSecret whose store calls all succeed, made when the last
\* mutation of the path was a successful CreateSecret(p, d, m), returns a
\* secret with the path it was given, Data = d and Metadata = m.
C2_ReadReturnsCreated ==
    (last.op = "ReadSecret" /\ last.in.f = NoFault /\ PrecededBy(last.path, "create")) =>
        /\ last.err = NoErr
        /\ ~last.val.isNil
        /\ last.val.Path = last.path
        /\ last.val.Data = PrecedingMutation(last.path).data
        /\ last.val.Metadata = PrecedingMutation(last.path).meta

\* A ReadSecret(p) right after CreateSecret(p, d, m) returned d and m.
C2_Witness ==
    /\ last.op = "ReadSecret"
    /\ PrecededBy(last.path, "create")
    /\ PrecedingMutation(last.path).path = last.path
    /\ last.err = NoErr
    /\ last.val.Path = last.path
    /\ last.val.Data = PrecedingMutation(last.path).data
    /\ last.val.Metadata = PrecedingMutation(last.path).meta
    /\ \E e \in last.val.Metadata : e[1] = "owner"

\* C3: a ReadSecret made when the last mutation of the path was a successful
\* DeleteSecret returns no secret; unless a store call of it failed in
\* transport or its mount probe was answered 404, it returns absent (no
\* secret, no error) or the 'secret is marked deleted' error.
C3_ReadAfterDelete ==
    (last.op = "ReadSecret" /\ PrecededBy(last.path, "delete")) =>
        /\ last.val.isNil
        /\ ((last.err.cause # TransportError /\ last.in.f \notin ProbeFaults) =>
                \/ last.err = NoErr
                \/ last.err.msg = "secret is marked deleted")

\* A secret was created, deleted, and then read as absent.
C3_Witness ==
    /\ last.op = "ReadSecret"
    /\ Len(PreHistOf(last.path)) = 2
    /\ PreHistOf(last.path)[1].op = "create"
    /\ PreHistOf(last.path)[2].op = "delete"
    /\ last.in.f = NoFault
    /\ last.val.isNil
    /\ last.err = NoErr

\* C4: a ReadSecret whose store calls all succeed, on a path whose data
\* sub-path returns an object, returns the 'secret is marked deleted' error
\* exactly when the deletion_time of that object is non-empty.
C4_MarkedDeletedIffDeletionTime ==
    (/\ last.op = "ReadSecret"
     /\ last.in.f = NoFault
     /\ KeyOf(last.path) \in DOMAIN last.preKV
     /\ last.preKV[KeyOf(last.path)].hasData) =>
        ((last.err.msg = "secret is marked deleted")
            <=> (last.preKV[KeyOf(last.path)].deletion_time # ""))

\* A ReadSecret of a secret whose latest version is marked deleted crashed.
C4_Witness ==
    /\ last.op = "ReadSecret"
    /\ last.in.f = NoFault
    /\ KeyOf(last.path) \in DOMAIN last.preKV
    /\ last.preKV[KeyOf(last.path)].hasData
    /\ last.preKV[KeyOf(last.path)].deletion_time # ""
    /\ last.crashed

\* C5: a successful UpdateSecretMetadata(p, m) leaves m as the stored custom
\* metadata and the data of the secret as it was; a ReadSecret whose store
\* calls all succeed, made on a live secret whose last mutation was a
\* successful UpdateSecretMetadata(p, m), returns Metadata = m and the
\* stored data.
C5_UpdateReplacesMetadata ==
    /\ (last.op = "UpdateSecretMetadata" /\ last.err = NoErr) =>
        /\ KeyOf(last.path) \in DOMAIN last.preKV
        /\ KeyOf(last.path) \in DOMAIN kv
        /\ kv[KeyOf(last.path)].cm = last.in.Metadata
        /\ kv[KeyOf(last.path)].hasData = last.preKV[KeyOf(last.path)].hasData
        /\ kv[KeyOf(last.path)].data = last.preKV[KeyOf(last.path)].data
        /\ kv[KeyOf(last.path)].deletion_time = last.preKV[KeyOf(last.path)].deletion_time
    /\ (/\ last.op = "ReadSecret"
        /\ last.in.f = NoFault
        /\ PrecededBy(last.path, "update")
        /\ LiveBefore(last.path)) =>
        /\ last.err = NoErr
        /\ last.val.Metadata = PrecedingMutation(last.path).meta
        /\ last.val.Data = last.preKV[KeyOf(last.path)].data

\* After UpdateSecretMetadata(p, m1) and UpdateSecretMetadata(p, m2), m1
\* holding a key that m2 does not, a ReadSecret(p) returned m2 and the data.
C5_Witness ==
    /\ last.op = "ReadSecret"
    /\ Len(PreHistOf(last.path)) = 2
    /\ PreHistOf(last.path)[1].op = "update"
    /\ PreHistOf(last.path)[2].op = "update"
    /\ \E e \in PreHistOf(last.path)[1].meta : e[1] \notin MapKeys(PreHistOf(last.path)[2].meta)
    /\ last.err = NoErr
    /\ last.val.Metadata = PreHistOf(last.path)[2].meta
    /\ last.val.Data = SeedSecret.Data

\* The two child paths of the keypair the last handler call worked on, and
\* their keys in the store.
PrivatePath == keypairPaths(last.path)[1]

PublicPath == keypairPaths(last.path)[2]

HasPrivate == KeyOf(PrivatePath) \in DOMAIN kv

HasPublic == KeyOf(PublicPath) \in DOMAIN kv

\* The keys of the store that the write calls of the last call addressed.
WrittenKeys ==
    { EnvRoute(last.calls[i][2]).key :
        i \in { j \in 1..Len(last.calls) : last.calls[j][1] = "write" } }

\* C6: a keypair Create that reports no error has written exactly two
\* secrets, B/private and B/public; the custom metadata stored for
\* B/private has keypair_part = private and keypair_linked_secret_path =
\* B/public, that of B/public has keypair_part = public and
\* keypair_linked_secret_path = B/private.
C6_CreateStoresLinkedPair ==
    (last.op = "KeyPairCreate" /\ last.errors = << >>) =>
        /\ WrittenKeys = { KeyOf(PrivatePath), KeyOf(PublicPath) }
        /\ HasPrivate
        /\ HasPublic
        /\ MapGet(kv[KeyOf(PrivatePath)].cm, KeyPairPartMetadata) = PrivateKeyPart
        /\ MapGet(kv[KeyOf(PrivatePath)].cm, KeyPairLinkedSecretMetadata) = PublicPath
        /\ MapGet(kv[KeyOf(PublicPath)].cm, KeyPairPartMetadata) = PublicKeyPart
        /\ MapGet(kv[KeyOf(PublicPath)].cm, KeyPairLinkedSecretMetadata) = PrivatePath

\* A keypair Create succeeded on an empty store and stored both halves.
C6_Witness ==
    /\ last.op = "KeyPairCreate"
    /\ last.errors = << >>
    /\ kpState.present
    /\ last.preKV = NoKV
    /\ DOMAIN kv = { KeyOf(PrivatePath), KeyOf(PublicPath) }
    /\ kv[KeyOf(PrivatePath)].hasData
    /\ kv[KeyOf(PublicPath)].hasData
    /\ kv[KeyOf(PrivatePath)].data # kv[KeyOf(PublicPath)].data

\* The private half was created and the CreateSecret of the public half
\* failed, in the last call.
PublicHalfFailed ==
    /\ last.op = "KeyPairCreate"
    /\ Len(last.ops) >= 2
    /\ last.ops[1] = [op |-> "CreateSecret", path |-> PrivatePath, err |-> ""]
    /\ last.ops[2].op = "CreateSecret"
    /\ last.ops[2].path = PublicPath
    /\ last.ops[2].err # ""

\* C7: when keypair Create has created the private half and the
\* CreateSecret of the public half fails, it calls DeleteSecret on the
\* private path, reports the public-half creation error as its only error
\* and does not set the state; when that DeleteSecret succeeds nothing is
\* left at the private path.
C7_PublicFailureRollsBack ==
    PublicHalfFailed =>
        /\ Len(last.ops) = 3
        /\ last.ops[3].op = "DeleteSecret"
        /\ last.ops[3].path = PrivatePath
        /\ last.errors = << Diag("Error creating public key", PublicPath) >>
        /\ last.stateOp = "keep"
        /\ ~kpState.present
        /\ (last.ops[3].err = "" => ~HasPrivate)

\* The public half failed, the compensating delete succeeded and the private
\* half is gone.
C7_Witness ==
    /\ PublicHalfFailed
    /\ Len(last.ops) = 3
    /\ last.ops[3] = [op |-> "DeleteSecret", path |-> PrivatePath, err |-> ""]
    /\ \E i \in 1..Len(last.calls) :
          last.calls[i][1] = "write" /\ EnvRoute(last.calls[i][2]).key = KeyOf(PrivatePath)
    /\ ~HasPrivate
    /\ ~kpState.present

\* C8: when the creation of the public half fails and the compensating
\* delete of the private half fails too, keypair Create reports the
\* public-half creation error and, apart from it, a warning that names the
\* private path; the state is not set and the private half stays in the
\* store.
C8_RollbackFailureWarns ==
    (PublicHalfFailed /\ Len(last.ops) = 3 /\ last.ops[3].err # "") =>
        /\ last.errors = << Diag("Error creating public key", PublicPath) >>
        /\ last.warnings =
              << Diag("Rollback failed after public key creation error", PrivatePath) >>
        /\ last.stateOp = "keep"
        /\ ~kpState.present
        /\ HasPrivate
        /\ kv[KeyOf(PrivatePath)].hasData

\* The public half failed and the compensating delete failed.
C8_Witness ==
    /\ PublicHalfFailed
    /\ Len(last.ops) = 3
    /\ last.ops[3].op = "DeleteSecret"
    /\ last.ops[3].err # ""
    /\ Len(last.warnings) = 1
    /\ HasPrivate
    /\ ~HasPublic

\* C9: a keypair Create, Update or Delete that leaves something in the store
\* under exactly one of B/private and B/public has reported an error
\* diagnostic; one that returns without an error leaves both halves in the
\* store (Create, Update) or neither (Delete).
C9_OneHalfOnlyWithError ==
    (last.op \in { "KeyPairCreate", "KeyPairUpdate", "KeyPairDelete" }) =>
        /\ (HasPrivate # HasPublic) => last.errors # << >>
        /\ (last.errors = << >> /\ ~last.crashed) =>
              IF last.op = "KeyPairDelete"
              THEN ~HasPrivate /\ ~HasPublic
              ELSE HasPrivate /\ HasPublic

\* A keypair Update crashed on a store that holds the public half only and
\* reported nothing.
C9_Witness ==
    /\ last.op = "KeyPairUpdate"
    /\ last.crashed
    /\ last.errors = << >>
    /\ ~HasPrivate
    /\ HasPublic

\* The secrets of the resource the last call worked on.
PathsOfLast ==
    IF last.op = "RandomDelete" THEN { last.path } ELSE { PrivatePath, PublicPath }

\* ReadSecret, its store calls all succeeding, returns a secret for p from
\* the store kvs.
Readable(kvs, p) ==
    /\ ReadSecret([EmptyWorld EXCEPT !.kv = kvs], p, NoFault).err = NoErr
    /\ ~ReadSecret([EmptyWorld EXCEPT !.kv = kvs], p, NoFault).val.isNil

\* C10: a resource Delete (random secret, keypair) whose state has
\* force_destroy false or null reports an error, issues no call to the store
\* and keeps the state, and every secret of the resource that was readable
\* stays readable; a resource Delete calls DeleteSecret only when
\* force_destroy is true.
C10_DeleteNeedsForceDestroy ==
    (last.op \in { "KeyPairDelete", "RandomDelete" }) =>
        /\ ~ValueBool(last.in.force_destroy) =>
              /\ last.errors # << >>
              /\ last.calls = << >>
              /\ last.ops = << >>
              /\ last.stateOp = "keep"
              /\ kv = last.preKV
              /\ \A p \in PathsOfLast : Readable(last.preKV, p) => Readable(kv, p)
        /\ last.ops # << >> => last.in.force_destroy = "true"

\* A keypair Delete with force_destroy false was refused and both halves
\* are readable.
C10_Witness ==
    /\ last.op = "KeyPairDelete"
    /\ last.in.force_destroy = "false"
    /\ last.errors # << >>
    /\ kpState.present
    /\ \A p \in PathsOfLast : Readable(kv, p)

\* A random-secret Delete with force_destroy false was refused and the
\* secret is readable.
C10_WitnessRandom ==
    /\ last.op = "RandomDelete"
    /\ last.in.force_destroy = "false"
    /\ last.errors # << >>
    /\ rsState.present
    /\ Readable(kv, last.path)

\* The store with other secret bytes in every secret it holds.
Regenerated(kvs) ==
    [k \in DOMAIN kvs |->
        [kvs[k] EXCEPT !.data = IF @ = {} THEN {}
                                ELSE { << SecretDataKey, Base64(SeedGen.privateKey) >> }]]

RegeneratedWorld == [World EXCEPT !.kv = Regenerated(kv)]

\* Two stores that differ at most in the secret bytes they hold.
SameButData(k1, k2) ==
    /\ DOMAIN k1 = DOMAIN k2
    /\ \A k \in DOMAIN k1 : [k1[k] EXCEPT !.data = {}] = [k2[k] EXCEPT !.data = {}]

\* Two handler results that agree on the state, on the diagnostics and on
\* the store but for the secret bytes.
SameButSecret(r1, r2, old) ==
    /\ StateAfter(r1, old) = StateAfter(r2, old)
    /\ r1.errors = r2.errors
    /\ r1.warnings = r2.warnings
    /\ r1.crashed = r2.crashed
    /\ SameButData(r1.w.kv, r2.w.kv)

\* C11: the state has the attributes base_path or path, type, length,
\* metadata and force_destroy only; wherever a handler call can follow, a
\* Create (of a resource the state does not hold) with
\* the same plan and the same store answers sets the same state whichever
\* bytes the generator returned, leaving stores that differ in the secret
\* bytes only; and a Read or an Update sets the same state on two stores
\* that differ in the secret bytes only.
C11_SecretNotInState ==
    /\ DOMAIN kpState = { "present", "base_path", "type", "metadata", "force_destroy" }
    /\ DOMAIN rsState =
          { "present", "path", "type", "length", "metadata", "force_destroy" }
    /\ \A plan \in KeyPairPlans, run \in CreateRuns :
          (nops < MaxOps /\ ~kpState.present /\ run[1].ok) =>
            SameButSecret(KeyPairCreate(World, plan, run[1], run[2], run[3], run[4]),
                          KeyPairCreate(World, plan, SeedGen, run[2], run[3], run[4]),
                          kpState)
    /\ \A plan \in RandomPlans, run \in CreateRuns :
          (nops < MaxOps /\ ~rsState.present /\ run[1].ok /\ run[3] = NoFault) =>
            SameButSecret(RandomCreate(World, plan, run[1], run[2]),
                          RandomCreate(World, plan, SeedGen, run[2]),
                          rsState)
    /\ (nops < MaxOps /\ kpState.present) =>
          /\ \A f \in EdgeFaults(4) :
                SameButSecret(KeyPairRead(World, kpState, f),
                              KeyPairRead(RegeneratedWorld, kpState, f), kpState)
          /\ \A plan \in KeyPairUpdatePlans(kpState), f \in Faults2(3, 3) :
                SameButSecret(KeyPairUpdate(World, plan, kpState, f[1], f[2]),
                              KeyPairUpdate(RegeneratedWorld, plan, kpState, f[1], f[2]),
                              kpState)
    /\ (nops < MaxOps /\ rsState.present) =>
          /\ \A f \in EdgeFaults(4) :
                SameButSecret(RandomRead(World, rsState, f),
                              RandomRead(RegeneratedWorld, rsState, f), rsState)
          /\ \A plan \in RandomUpdatePlans(rsState), f \in EdgeFaults(3) :
                SameButSecret(RandomUpdate(World, plan, rsState, f),
                              RandomUpdate(RegeneratedWorld, plan, rsState, f),
                              rsState)

\* A random-secret Create stored its bytes and set a state that the same
\* Create with other bytes sets too, storing other data.
C11_Witness ==
    /\ last.op = "RandomCreate"
    /\ last.errors = << >>
    /\ rsState.present
    /\ kv[KeyOf(last.path)].data # {}
    /\ StateAfter(RandomCreate([World EXCEPT !.kv = last.preKV], last.in, SeedGen, NoFault),
                  NoRSState) = rsState
    /\ RandomCreate([World EXCEPT !.kv = last.preKV], last.in, SeedGen, NoFault).w.kv # kv

\* The operations of VaultApi.
ApiOps == { "CreateSecret", "ReadSecret", "UpdateSecretMetadata", "DeleteSecret" }

\* The mount-discovery request of the last call was answered 404.
Probe404 == last.op \in ApiOps /\ last.in.f \in ProbeFaults

\* C12: when the mount-discovery request is answered 404, the probe yields
\* version 1 with an empty mount path and no error, and CreateSecret,
\* ReadSecret, UpdateSecretMetadata and DeleteSecret return an error caused
\* by 'unsupported mount', having issued no read, write or delete and left
\* the store as it was.
C12_UnsupportedOn404 ==
    Probe404 =>
        /\ kvPreflightVersionRequest(World, last.in.f, 1, sanitizePath(last.path)).version = 1
        /\ kvPreflightVersionRequest(World, last.in.f, 1, sanitizePath(last.path)).mountPath = << >>
        /\ kvPreflightVersionRequest(World, last.in.f, 1, sanitizePath(last.path)).err = ""
        /\ last.err.cause = "unsupported mount"
        /\ ~last.crashed
        /\ last.val.isNil
        /\ \A i \in 1..Len(last.calls) : last.calls[i][1] = "probe"
        /\ kv = last.preKV

\* A DeleteSecret of a live secret of the KV-v2 mount, its probe answered
\* 404, returned 'unsupported mount' and the secret is still there.
C12_Witness ==
    /\ Probe404
    /\ last.op = "DeleteSecret"
    /\ LiveBefore(last.path)
    /\ last.err.cause = "unsupported mount"
    /\ Len(last.calls) = 1
    /\ KeyOf(last.path) \in DOMAIN kv

\* The secret a resource Read reads: the secret itself, the private half
\* of a keypair.
ReadPathOfLast == IF last.op = "RandomRead" THEN last.path ELSE PrivatePath

\* The store held nothing at the data sub-path of p before the last call.
NothingAt(p) ==
    \/ KeyOf(p) \notin DOMAIN last.preKV
    \/ ~last.preKV[KeyOf(p)].hasData

\* C13: on a store that holds nothing at the data sub-path of p,
\* ReadSecret(p), its store calls all succeeding, returns no secret and no
\* error; a resource Read (random secret, keypair) whose ReadSecret returns
\* without error on such a store reports nothing and removes the resource
\* from the state.
C13_AbsentRemovesState ==
    (last.op \in { "RandomRead", "KeyPairRead" } /\ NothingAt(ReadPathOfLast)) =>
        /\ ReadSecret([EmptyWorld EXCEPT !.kv = last.preKV], ReadPathOfLast, NoFault).err = NoErr
        /\ ReadSecret([EmptyWorld EXCEPT !.kv = last.preKV], ReadPathOfLast, NoFault).val.isNil
        /\ last.ops[1].op = "ReadSecret"
        /\ last.ops[1].path = ReadPathOfLast
        /\ last.ops[1].err = "" =>
              /\ last.errors = << >>
              /\ last.warnings = << >>
              /\ ~last.crashed
              /\ last.stateOp = "remove"
              /\ IF last.op = "RandomRead" THEN ~rsState.present ELSE ~kpState.present
              /\ kv = last.preKV

\* A random secret was imported from an empty store; Read found nothing and
\* removed it from the state.
C13_Witness ==
    /\ last.op = "RandomRead"
    /\ last.in = RandomImportState(last.path)
    /\ last.preKV = NoKV
    /\ last.ops = << [op |-> "ReadSecret", path |-> last.path, err |-> ""] >>
    /\ last.errors = << >>
    /\ ~rsState.present

\* The same for a keypair.
C13_WitnessKeyPair ==
    /\ last.op = "KeyPairRead"
    /\ last.in = KeyPairImportState(last.path)
    /\ NothingAt(PrivatePath)
    /\ last.errors = << >>
    /\ ~kpState.present

\* The last call read the metadata sub-path and the read was answered:
\* the second store call of UpdateSecretMetadata, the fourth of ReadSecret.
MetadataReadAnswered ==
    \/ /\ last.op = "UpdateSecretMetadata"
       /\ Len(last.calls) >= 2
       /\ last.in.f.at # 2
    \/ /\ last.op = "ReadSecret"
       /\ Len(last.calls) >= 4
       /\ last.in.f.at # 4

\* The store answered that read with no object, or with an object without
\* custom_metadata.
NoCustomMetadataAt(p) ==
    \/ KeyOf(p) \notin DOMAIN last.preKV
    \/ ~last.preKV[KeyOf(p)].hasCM

\* C14: an UpdateSecretMetadata or ReadSecret whose read of the metadata
\* sub-path is answered with no object, or with an object without
\* custom_metadata, returns the 'missing custom metadata' error, does not
\* crash and issues no write.
C14_MissingMetadataIsError ==
    (MetadataReadAnswered /\ NoCustomMetadataAt(last.path)) =>
        /\ last.err.msg = "missing custom metadata"
        /\ ~last.crashed
        /\ NoWriteIssued
        /\ kv = last.preKV

\* An UpdateSecretMetadata of a path the store holds nothing at crashed.
C14_Witness ==
    /\ last.op = "UpdateSecretMetadata"
    /\ MetadataReadAnswered
    /\ KeyOf(last.path) \notin DOMAIN last.preKV
    /\ last.crashed
    /\ last.err.cause = "nil dereference"

\* An UpdateSecretMetadata of a secret without custom metadata returned
\* 'missing custom metadata'.
C14_WitnessNoField ==
    /\ last.op = "UpdateSecretMetadata"
    /\ MetadataReadAnswered
    /\ KeyOf(last.path) \in DOMAIN last.preKV
    /\ ~last.preKV[KeyOf(last.path)].hasCM
    /\ last.err.msg = "missing custom metadata"
    /\ NoWriteIssued

\* The plan of the last keypair Update changes base_path or type.  (Update
\* never changes them in the state, and last.path is the state's base_path.)
KeyPairPlanChanges ==
    /\ last.op = "KeyPairUpdate"
    /\ \/ last.in.base_path # last.path
       \/ last.in.type # kpState.type

\* C15: a keypair Update whose plan changes base_path or type reports an
\* error, issues no metadata write and leaves the state as it was.
C15_UpdateRejectsIdentityChange ==
    KeyPairPlanChanges =>
        /\ last.errors # << >>
        /\ NoWriteIssued
        /\ last.stateOp = "keep"
        /\ kv = last.preKV

\* A keypair Update whose plan names another base_path reported nothing,
\* wrote the metadata of both halves and set the state.
C15_Witness ==
    /\ KeyPairPlanChanges
    /\ last.in.base_path = KvKpOther
    /\ last.errors = << >>
    /\ ~last.crashed
    /\ last.stateOp = "set"
    /\ WrittenKeys = { KeyOf(PrivatePath), KeyOf(PublicPath) }
    /\ kpState.metadata = last.in.metadata
    /\ kpState.base_path # last.in.base_path

\* The same for a plan that names another type.
C15_WitnessType ==
    /\ KeyPairPlanChanges
    /\ last.in.base_path = last.path
    /\ last.errors = << >>
    /\ last.stateOp = "set"
    /\ WrittenKeys = { KeyOf(PrivatePath), KeyOf(PublicPath) }
    /\ kpState.type # last.in.type

\* What an Update that sets the state changes in it: metadata and
\* force_destroy, to the plan's values, and nothing else.
UpdateFrame(r, plan, state) ==
    (r.errors = << >> /\ ~r.crashed) =>
        /\ r.stateOp = "set"
        /\ r.state = [state EXCEPT !.metadata = plan.metadata,
                                   !.force_destroy = plan.force_destroy]

\* C16: a random-secret Update whose plan names another path than the state
\* reports an error, issues no call to the store and keeps the state; a
\* random-secret Update that reports no error, whatever path-preserving plan
\* it is given (its type and length may differ from the state's), sets a
\* state that differs from the old one in metadata and force_destroy only.
C16_UpdateKeepsIdentity ==
    /\ (last.op = "RandomUpdate" /\ last.in.path # last.path) =>
          /\ last.errors # << >>
          /\ last.calls = << >>
          /\ last.ops = << >>
          /\ last.stateOp = "keep"
          /\ rsState.path = last.path
          /\ kv = last.preKV
    /\ (nops < MaxOps /\ rsState.present) =>
          \A plan \in RandomPlans \cup RandomUpdatePlans(rsState), f \in EdgeFaults(3) :
              plan.path = rsState.path =>
                  UpdateFrame(RandomUpdate(World, plan, rsState, f), plan, rsState)

\* A random-secret Update with another path in its plan was refused.
C16_Witness ==
    /\ last.op = "RandomUpdate"
    /\ last.in.path = KvFooBare
    /\ rsState.path = KvFoo
    /\ last.errors = << Diag("Error updating random key", KvFoo) >>
    /\ last.calls = << >>
    /\ Readable(kv, KvFoo)

\* A random-secret Update changed the metadata of the state and left path,
\* type and length.
C16_WitnessFrame ==
    /\ last.op = "RandomUpdate"
    /\ last.errors = << >>
    /\ last.stateOp = "set"
    /\ rsState.metadata = KnownMap({ << "owner", "b" >> })
    /\ PrecededBy(last.path, "create")
    /\ << "owner", "b" >> \notin PrecedingMutation(last.path).meta
    /\ rsState.path = last.path
    /\ rsState.length = 16

\* The length of b without its trailing separators.
StrippedLen(b) ==
    CHOOSE n \in 0..Len(b) :
        /\ n = 0 \/ b[n] # "/"
        /\ \A i \in (n + 1)..Len(b) : b[i] = "/"

\* B'/private and B'/public for B' = b without its trailing separators.
ChildrenOf(b) ==
    << SubSeq(b, 1, StrippedLen(b)) \o << "/" >> \o PrivateKeyPart,
       SubSeq(b, 1, StrippedLen(b)) \o << "/" >> \o PublicKeyPart >>

\* c has one separator where the child name is joined to B'.
SingleJoin(b, c) ==
    /\ c[StrippedLen(b) + 1] = "/"
    /\ c[StrippedLen(b) + 2] # "/"
    /\ StrippedLen(b) > 0 => c[StrippedLen(b)] # "/"

\* The VaultApi calls ops of a handler address the private child first and
\* nothing but the two children.
OnChildren(ops, pair) ==
    /\ Len(ops) >= 1
    /\ ops[1].path = pair[1]
    /\ \A i \in 1..Len(ops) : ops[i].path \in { pair[1], pair[2] }

\* A keypair plan, and the state it leaves, for base path b.
PlanAt(b) == [SeedKeyPairPlan EXCEPT !.base_path = b]

\* The store after a Create at base path b on the empty store.
CreatedAt(b) ==
    [EmptyWorld EXCEPT !.kv =
        KeyPairCreate(EmptyWorld, PlanAt(b), SeedGen, NoFault, NoFault, NoFault).w.kv]

\* C17: for a base path B, keypairPaths(B), keypairPaths(B + "/") and
\* keypairPaths(B + "//") are the same pair (B'/private, B'/public), B' being
\* B without its trailing separators, each with a single separator at the
\* join; and Create at B, then Read, Update and Delete with B + "/" or
\* B + "//" in the state, address their VaultApi calls to these two paths.
C17_TrailingSeparatorIgnored ==
    (last.op = "keypairPaths") =>
        /\ last.in = ChildrenOf(last.path)
        /\ keypairPaths(last.path \o << "/" >>) = last.in
        /\ keypairPaths(last.path \o << "/", "/" >>) = last.in
        /\ SingleJoin(last.path, last.in[1])
        /\ SingleJoin(last.path, last.in[2])
        /\ OnChildren(KeyPairCreate(EmptyWorld, PlanAt(last.path), SeedGen,
                                    NoFault, NoFault, NoFault).w.ops, last.in)
        /\ \A t \in Trailers \ { << >> } :
              /\ OnChildren(KeyPairRead(CreatedAt(last.path),
                                AsState(PlanAt(last.path \o t)), NoFault).w.ops, last.in)
              /\ OnChildren(KeyPairUpdate(CreatedAt(last.path), PlanAt(last.path \o t),
                                AsState(PlanAt(last.path \o t)), NoFault, NoFault).w.ops,
                            last.in)
              /\ OnChildren(KeyPairDelete(CreatedAt(last.path),
                                AsState(PlanAt(last.path \o t)), NoFault, NoFault).w.ops,
                            last.in)

\* keypairPaths of "kv/k/" returned kv/k/private and kv/k/public; a keypair
\* created at "kv/k/" is read and deleted through "kv/k//".
C17_Witness ==
    /\ last.op = "keypairPaths"
    /\ last.path = << "k", "v", "/", "k", "/" >>
    /\ last.in[1] = << "k", "v", "/", "k", "/" >> \o PrivateKeyPart
    /\ last.in[2] = << "k", "v", "/", "k", "/" >> \o PublicKeyPart
    /\ DOMAIN CreatedAt(last.path).kv = { last.in[1], last.in[2] }
    /\ KeyPairRead(CreatedAt(last.path), AsState(PlanAt(last.path \o << "/" >>)),
                   NoFault).stateOp = "set"
    /\ KeyPairDelete(CreatedAt(last.path), AsState(PlanAt(last.path \o << "/" >>)),
                     NoFault, NoFault).w.kv = NoKV

\* The store calls of the last call that address the secret at p.
CallsOn(p) ==
    { i \in 1..Len(last.calls) :
        /\ last.calls[i][1] # "probe"
        /\ EnvRoute(last.calls[i][2]).key = KeyOf(p) }

\* The delete calls of the last call that address the secret at p.
DeletesOn(p) == { i \in CallsOn(p) : last.calls[i][1] = "delete" }

\* C18: a keypair Delete with force_destroy true calls DeleteSecret on the
\* private half first; when that fails it reports the error and makes no
\* call for the public half; when it succeeds it calls DeleteSecret on the
\* public half, and when that fails it reports the error and a
\* partial-deletion warning, keeps the state, and the private half is gone;
\* no half is the subject of two DeleteSecret calls or two delete requests.
C18_DeleteOrder ==
    (last.op = "KeyPairDelete" /\ last.in.force_destroy = "true") =>
        /\ Len(last.ops) \in { 1, 2 }
        /\ last.ops[1].op = "DeleteSecret"
        /\ last.ops[1].path = PrivatePath
        /\ last.ops[1].err # "" =>
              /\ Len(last.ops) = 1
              /\ CallsOn(PublicPath) = {}
              /\ last.errors = << Diag("Error deleting private key", PrivatePath) >>
              /\ last.warnings = << >>
              /\ last.stateOp = "keep"
        /\ last.ops[1].err = "" =>
              /\ Len(last.ops) = 2
              /\ last.ops[2].op = "DeleteSecret"
              /\ last.ops[2].path = PublicPath
              /\ ~HasPrivate
              /\ \A i \in CallsOn(PrivatePath), j \in CallsOn(PublicPath) : i < j
              /\ last.ops[2].err # "" =>
                    /\ last.errors = << Diag("Error deleting public key", PublicPath) >>
                    /\ last.warnings =
                          << Diag("Partial deletion: private key already deleted",
                                  PrivatePath) >>
                    /\ last.stateOp = "keep"
                    /\ kpState.present
              /\ last.ops[2].err = "" =>
                    /\ last.errors = << >>
                    /\ last.warnings = << >>
                    /\ ~HasPublic
                    /\ ~kpState.present
        /\ Cardinality(DeletesOn(PrivatePath)) <= 1
        /\ Cardinality(DeletesOn(PublicPath)) <= 1

\* The private half was deleted, the delete of the public half failed: an
\* error and a warning, the public half alone is left.
C18_Witness ==
    /\ last.op = "KeyPairDelete"
    /\ last.in.force_destroy = "true"
    /\ Len(last.ops) = 2
    /\ last.ops[1].err = ""
    /\ last.ops[2].err # ""
    /\ Cardinality(DeletesOn(PrivatePath)) = 1
    /\ KeyOf(PrivatePath) \in DOMAIN last.preKV
    /\ ~HasPrivate
    /\ HasPublic
    /\ Len(last.warnings) = 1

\* The delete of the private half failed and nothing was asked of the
\* public half.
C18_WitnessPrivateFailed ==
    /\ last.op = "KeyPairDelete"
    /\ last.in.force_destroy = "true"
    /\ last.ops[1].err # ""
    /\ Len(last.ops) = 1
    /\ HasPrivate
    /\ HasPublic

\* The decimal string of a natural number.
RECURSIVE DecimalString(_)
DecimalString(n) ==
    IF n < 10
    THEN << "0", "1", "2", "3", "4", "5", "6", "7", "8", "9" >>[n + 1]
    ELSE DecimalString(n \div 10) \o DecimalString(n % 10)

\* The entries of the map m under key k.
EntriesOf(m, k) == { e \in m : e[1] = k }

\* C19: after a random-secret Create that reports no error, for a plan of
\* type T, the custom metadata stored for the secret has secret_type = T and
\* secret_length = the decimal string of the length L of the secret (the
\* plan's length for random_secret, 64 for curve25519_keypair, and the
\* length of the state in both cases), whatever the plan's metadata say
\* under these keys; its other entries are those of the plan's metadata.
C19_ReservedMetadataWin ==
    (last.op = "RandomCreate" /\ last.errors = << >>) =>
        /\ KeyOf(last.path) \in DOMAIN kv
        /\ kv[KeyOf(last.path)].hasCM
        /\ EntriesOf(kv[KeyOf(last.path)].cm, SecretTypeMetadata) =
              { << SecretTypeMetadata, last.in.type >> }
        /\ EntriesOf(kv[KeyOf(last.path)].cm, SecretLengthMetadata) =
              { << SecretLengthMetadata, DecimalString(rsState.length) >> }
        /\ rsState.length =
              IF last.in.type = RandomBytesType THEN last.in.length
              ELSE DefaultCurve25519KeypairLength
        /\ { e \in kv[KeyOf(last.path)].cm :
                e[1] \notin { SecretTypeMetadata, SecretLengthMetadata } }
              = { e \in last.in.metadata.elems :
                    e[1] \notin { SecretTypeMetadata, SecretLengthMetadata } }

\* A Create whose plan's metadata name secret_type and secret_length stored
\* the type and the length of the secret under them.
C19_Witness ==
    /\ last.op = "RandomCreate"
    /\ last.errors = << >>
    /\ << SecretTypeMetadata, "mine" >> \in last.in.metadata.elems
    /\ << SecretLengthMetadata, "7" >> \in last.in.metadata.elems
    /\ last.in.type = RandomBytesType
    /\ last.in.length = 16
    /\ MapGet(kv[KeyOf(last.path)].cm, SecretTypeMetadata) = RandomBytesType
    /\ MapGet(kv[KeyOf(last.path)].cm, SecretLengthMetadata) = "16"

\* The reserved metadata keys of the resource the last call worked on.
ReservedKeys ==
    IF last.op = "RandomRead"
    THEN { SecretTypeMetadata, SecretLengthMetadata }
    ELSE { SecretTypeMetadata, SecretLengthMetadata,
           KeyPairLinkedSecretMetadata, KeyPairPartMetadata }

\* The stored map m is the user metadata u, which has no reserved key, plus
\* entries under reserved keys.
UserPartOf(u, m) ==
    /\ u \subseteq m
    /\ MapKeys(u) \cap ReservedKeys = {}
    /\ MapKeys(m \ u) \subseteq ReservedKeys

\* The last call was a resource Read that set the state, of a secret whose
\* last mutation was its creation.
ReadOfCreated ==
    /\ last.op \in { "RandomRead", "KeyPairRead" }
    /\ last.errors = << >>
    /\ last.stateOp = "set"
    /\ PrecededBy(ReadPathOfLast, "create")

\* The state the last Read set.
StateOfLast == IF last.op = "RandomRead" THEN rsState ELSE kpState

\* C20: a resource Read (random secret, keypair) that sets the state, of a
\* secret whose last mutation was the Create that stored user metadata u
\* (without reserved key) plus the reserved entries, sets metadata = u, type
\* = the stored secret_type and, for a random secret, length = the number
\* whose decimal string is the stored secret_length; no reserved key is
\* among the metadata of the state; this holds for a state that came from
\* Create, whose metadata the Read leaves as they were, and for an imported
\* state that held the path only.
C20_ReadRoundTrip ==
    ReadOfCreated =>
        /\ \A u \in SUBSET PrecedingMutation(ReadPathOfLast).meta :
              UserPartOf(u, PrecedingMutation(ReadPathOfLast).meta) =>
                  StateOfLast.metadata = KnownMap(u)
        /\ MapKeys(StateOfLast.metadata.elems) \cap ReservedKeys = {}
        /\ StateOfLast.type =
              MapGet(PrecedingMutation(ReadPathOfLast).meta, SecretTypeMetadata)
        /\ last.op = "RandomRead" =>
              /\ DecimalString(rsState.length) =
                    MapGet(PrecedingMutation(ReadPathOfLast).meta, SecretLengthMetadata)
              /\ rsState.path = last.in.path
        /\ last.op = "KeyPairRead" => kpState.base_path = last.in.base_path
        /\ (/\ last.in.type # TFNull
            /\ MapKeys(last.in.metadata.elems) \cap ReservedKeys = {}) =>
              /\ StateOfLast.metadata.elems = last.in.metadata.elems
              /\ StateOfLast.type = last.in.type
              /\ last.op = "RandomRead" => rsState.length = last.in.length

\* A random secret created with metadata {owner: b}, type random_secret and
\* length 16 was imported by its path; Read set these in the state.
C20_Witness ==
    /\ ReadOfCreated
    /\ last.op = "RandomRead"
    /\ last.in = RandomImportState(KvFoo)
    /\ rsState.metadata = KnownMap({ << "owner", "b" >> })
    /\ rsState.type = RandomBytesType
    /\ rsState.length = 16
    /\ rsState.force_destroy = "false"

\* The same for a keypair created with metadata {owner: a, team: x}.
C20_WitnessKeyPair ==
    /\ ReadOfCreated
    /\ last.op = "KeyPairRead"
    /\ last.in = KeyPairImportState(KvKpSlash)
    /\ kpState.metadata = KnownMap({ << "owner", "a" >>, << "team", "x" >> })
    /\ kpState.type = Curve25519KeyPairType

\* A keypair Create with metadata {owner: b} was followed by a Read that
\* left them in the state.
C20_WitnessCreated ==
    /\ ReadOfCreated
    /\ last.op = "KeyPairRead"
    /\ last.in.type = Curve25519KeyPairType
    /\ last.preHist[KeyOf(PrivatePath)][1].data = { << SecretDataKey, Base64("kA") >> }
    /\ kpState.metadata = KnownMap({ << "owner", "b" >> })

\* C21: a keypair Read that sets the state, given the state that a Create or
\* an Update without metadata attribute stored (metadata null, no entries),
\* leaves the metadata of the state as they were stored: null.
C21_NoDriftWithoutMetadata ==
    (/\ last.op = "KeyPairRead"
     /\ last.errors = << >>
     /\ last.stateOp = "set"
     /\ last.in.type # TFNull
     /\ last.in.metadata = NullMap) =>
        kpState.metadata = last.in.metadata

\* A keypair Create without metadata set null metadata in the state; the
\* Read that followed set a known map without entries.
C21_Witness ==
    /\ last.op = "KeyPairRead"
    /\ last.errors = << >>
    /\ last.stateOp = "set"
    /\ last.in.type = Curve25519KeyPairType
    /\ last.in.metadata = NullMap
    /\ PrecededBy(PrivatePath, "create")
    /\ kpState.metadata = KnownMap({})

\* The same after an Update that removed the metadata attribute.
C21_WitnessUpdate ==
    /\ last.op = "KeyPairRead"
    /\ last.errors = << >>
    /\ last.stateOp = "set"
    /\ last.in.metadata = NullMap
    /\ PrecededBy(PrivatePath, "update")
    /\ PreHistOf(PrivatePath)[1].meta # PrecedingMutation(PrivatePath).meta
    /\ kpState.metadata = KnownMap({})

\* C22: ModifyPlan on the plan of a random_secret without configured length
\* plans length 32; on the plan of a curve25519_keypair it reports an error
\* when a length other than 64 is configured and plans length 64 otherwise;
\* a Create of the planned resource that reports no error sets the length
\* of the state to the number of bytes generated, which is the planned
\* length, and for a curve25519_keypair that is 64, the stored secret being
\* the public key followed by the private key.
C22_PlannedLength ==
    /\ last.op = "RandomModifyPlan" =>
          /\ (/\ last.in.proposed.type = RandomBytesType
              /\ last.in.proposed.length = UnknownLength) =>
                /\ last.errors = << >>
                /\ last.in.planned.length = 32
          /\ last.in.proposed.type = Curse25519KeypairType =>
                IF last.in.proposed.length \in { UnknownLength, 64 }
                THEN last.errors = << >> /\ last.in.planned.length = 64
                ELSE last.errors # << >>
    /\ (last.op = "RandomCreate" /\ last.errors = << >>) =>
          /\ rsState.present
          /\ rsState.length = rsKeyLen(last.in)
          /\ rsState.length = last.in.length
          /\ last.in.type = Curse25519KeypairType =>
                /\ rsState.length = 64
                /\ \E g \in Gens :
                      /\ g.ok
                      /\ kv[KeyOf(last.path)].data =
                            { << SecretDataKey, Base64(g.publicKey \o g.privateKey) >> }

\* A curve25519_keypair planned without configured length was created: the
\* state holds length 64.
C22_Witness ==
    /\ last.op = "RandomCreate"
    /\ last.errors = << >>
    /\ last.in.type = Curse25519KeypairType
    /\ rsState.length = 64
    /\ kv[KeyOf(last.path)].data = { << SecretDataKey, Base64("pAkA") >> }
    /\ MapGet(kv[KeyOf(last.path)].cm, SecretLengthMetadata) = "64"

\* A random_secret without configured length was planned with length 32.
C22_WitnessDefault ==
    /\ last.op = "RandomModifyPlan"
    /\ last.in.proposed.type = RandomBytesType
    /\ last.in.proposed.length = UnknownLength
    /\ last.in.planned.length = 32
    /\ last.errors = << >>

\* A curve25519_keypair with configured length 32 was rejected.
C22_WitnessRejected ==
    /\ last.op = "RandomModifyPlan"
    /\ last.in.proposed.type = Curse25519KeypairType
    /\ last.in.proposed.length = 32
    /\ last.errors # << >>

\* The store with every version marked deleted, and with no version at all
\* (metadata only).
Tombstoned(kvs) ==
    [k \in DOMAIN kvs |-> [kvs[k] EXCEPT !.deletion_time = DeletedAt]]

Versionless(kvs) ==
    [k \in DOMAIN kvs |-> [kvs[k] EXCEPT !.hasData = FALSE, !.data = {},
                                         !.deletion_time = ""]]

\* The store calls of the last call by verb.
CallsOf(verb) == { i \in 1..Len(last.calls) : last.calls[i][1] = verb }

\* What DeleteSecret(p), its store calls all succeeding, does on store kvs:
\* its calls and its error.
DeleteRun(kvs, p) ==
    [calls |-> DeleteSecret([World EXCEPT !.kv = kvs], p, NoFault).w.calls,
     err |-> DeleteSecret([World EXCEPT !.kv = kvs], p, NoFault).err]

C23_WitnessLive ==
    /\ last.op = "DeleteSecret"
    /\ last.err = NoErr
    /\ last.preKV[KeyOf(last.path)].deletion_time = ""
    /\ last.preKV[KeyOf(last.path)].hasData
    /\ Cardinality(CallsOf("delete")) = 1
    /\ KeyOf(last.path) \notin DOMAIN kv

\* The verb of the engine that the i-th store call of the last call
\* addresses.
RouteVerb(i) == EnvRoute(last.calls[i][2]).verb

\* C24: in a CreateSecret every write comes after both mount probes; the
\* first write addresses the data sub-path and the second, if any, the
\* metadata sub-path; when the data write fails there is no other write and
\* the store is as it was; when the metadata write fails the error names the
\* metadata write, no delete is issued, and the store holds the data written
\* without custom metadata.
C24_CreateWriteOrder ==
    last.op = "CreateSecret" =>
        /\ Cardinality(CallsOf("write")) <= 2
        /\ \A i \in CallsOf("write") :
              /\ Cardinality(CallsOf("probe")) = 2
              /\ \A j \in CallsOf("probe") : j < i
              /\ EnvRoute(last.calls[i][2]).key = KeyOf(last.path)
              /\ RouteVerb(i) = IF i = Len(last.calls) /\ Cardinality(CallsOf("write")) = 2
                                THEN MetadataPrefix ELSE SecretDataField
        /\ CallsOf("delete") = {}
        /\ (last.in.f.kind = "transport" /\ last.in.f.at = Len(last.calls)) =>
              /\ last.err.cause = TransportError
              /\ (last.calls[Len(last.calls)][1] = "write" /\ RouteVerb(Len(last.calls)) = SecretDataField) =>
                    /\ last.err.msg = "unable to write secret's data"
                    /\ Cardinality(CallsOf("write")) = 1
                    /\ kv = last.preKV
              /\ (last.calls[Len(last.calls)][1] = "write" /\ RouteVerb(Len(last.calls)) = MetadataPrefix) =>
                    /\ last.err.msg = "unable to write secret's metadata"
                    /\ Cardinality(CallsOf("write")) = 2
                    /\ KeyOf(last.path) \in DOMAIN kv
                    /\ kv[KeyOf(last.path)].hasData
                    /\ kv[KeyOf(last.path)].data = last.in.Data
                    /\ ~kv[KeyOf(last.path)].hasCM
        /\ last.err.msg = "unable to write secret's data" => Cardinality(CallsOf("write")) = 1
        /\ last.err.msg = "unable to write secret's metadata" => Cardinality(CallsOf("write")) = 2

\* The metadata write of a CreateSecret failed: the data are in the store
\* without custom metadata.
C24_Witness ==
    /\ last.op = "CreateSecret"
    /\ last.err = Err("unable to write secret's metadata", TransportError)
    /\ KeyOf(last.path) \notin DOMAIN last.preKV
    /\ kv[KeyOf(last.path)].hasData
    /\ kv[KeyOf(last.path)].data = last.in.Data
    /\ kv[KeyOf(last.path)].cm = {}
    /\ last.calls[4][1] = "write"
    /\ last.calls[5][1] = "write"

\* The data write of a CreateSecret failed: one write, nothing stored.
C24_WitnessDataFailed ==
    /\ last.op = "CreateSecret"
    /\ last.err = Err("unable to write secret's data", TransportError)
    /\ Len(last.calls) = 4
    /\ KeyOf(last.path) \notin DOMAIN kv

\* A store call of the last VaultApi operation returned a transport error.
StoreCallFailed ==
    /\ last.op \in ApiOps
    /\ last.in.f.kind = "transport"
    /\ last.in.f.at <= Len(last.calls)

C25_WitnessProbe ==
    /\ StoreCallFailed
    /\ last.op = "UpdateSecretMetadata"
    /\ last.calls = << << "probe", KeyOf(last.path) >> >>
    /\ KeyOf(last.path) \in DOMAIN kv

\* The metadata read of a ReadSecret failed on a secret the store holds.
C25_WitnessRead ==
    /\ StoreCallFailed
    /\ last.op = "ReadSecret"
    /\ Len(last.calls) = 4
    /\ last.calls[4][1] = "read"
    /\ KeyOf(last.path) \in DOMAIN kv

\* The delete call of a DeleteSecret failed: the secret is still there.
C25_WitnessDelete ==
    /\ StoreCallFailed
    /\ last.op = "DeleteSecret"
    /\ last.calls[Len(last.calls)][1] = "delete"
    /\ KeyOf(last.path) \in DOMAIN kv

\* The store calls of the last call that touch the secret at p: its mount
\* probes and its reads, writes and deletes.
Touching(p) ==
    { i \in 1..Len(last.calls) :
        IF last.calls[i][1] = "probe" THEN last.calls[i][2] = KeyOf(p)
        ELSE EnvRoute(last.calls[i][2]).key = KeyOf(p) }

\* The write calls of the last call that address the secret at p.
WritesOn(p) == { i \in CallsOn(p) : last.calls[i][1] = "write" }

\* C26: a keypair Create that calls the store calls CreateSecret on the
\* private half first, and on the public half only after that succeeded, so
\* every write of the private half precedes every call that touches the
\* public path; when the CreateSecret of the private half fails, no call
\* touches the public path, no delete is issued, the error of the private
\* half is reported and the state is not set.
C26_PrivateBeforePublic ==
    (last.op = "KeyPairCreate" /\ last.ops # << >>) =>
        /\ last.ops[1].op = "CreateSecret"
        /\ last.ops[1].path = PrivatePath
        /\ \A i \in WritesOn(PrivatePath), j \in Touching(PublicPath) : i < j
        /\ Len(last.ops) >= 2 =>
              /\ last.ops[1].err = ""
              /\ last.ops[2].op = "CreateSecret"
              /\ last.ops[2].path = PublicPath
              /\ WritesOn(PrivatePath) # {}
        /\ last.ops[1].err # "" =>
              /\ Len(last.ops) = 1
              /\ Touching(PublicPath) = {}
              /\ CallsOf("delete") = {}
              /\ last.errors = << Diag("Error creating private key", PrivatePath) >>
              /\ last.warnings = << >>
              /\ last.stateOp = "keep"
              /\ ~kpState.present
              /\ HasPublic = (KeyOf(PublicPath) \in DOMAIN last.preKV)

\* The CreateSecret of the private half failed at its metadata write: the
\* data of the private half are left, nothing was asked about the public
\* half.
C26_Witness ==
    /\ last.op = "KeyPairCreate"
    /\ Len(last.ops) = 1
    /\ last.ops[1].err = "unable to write secret's metadata"
    /\ WritesOn(PrivatePath) # {}
    /\ Touching(PublicPath) = {}
    /\ HasPrivate
    /\ ~HasPublic
    /\ ~kpState.present

\* Both halves were created, the private half first.
C26_WitnessBoth ==
    /\ last.op = "KeyPairCreate"
    /\ Len(last.ops) = 2
    /\ last.ops[2].err = ""
    /\ Cardinality(WritesOn(PrivatePath)) = 2
    /\ Cardinality(WritesOn(PublicPath)) = 2
    /\ kpState.present

\* The store holds under p what it held before the last call.
UntouchedAt(p) ==
    IF KeyOf(p) \in DOMAIN last.preKV
    THEN KeyOf(p) \in DOMAIN kv /\ kv[KeyOf(p)] = last.preKV[KeyOf(p)]
    ELSE KeyOf(p) \notin DOMAIN kv

\* Keypair Create ran its compensating delete in the last call.
RolledBack ==
    /\ PublicHalfFailed
    /\ Len(last.ops) = 3
    /\ last.ops[3].op = "DeleteSecret"

\* C27: when keypair Create runs its compensating delete, this call has
\* written nothing under the public path, and when the compensating delete
\* succeeds the store is as it was before the call.
C27_RollbackLeavesNothing ==
    RolledBack =>
        /\ UntouchedAt(PublicPath)
        /\ last.ops[3].err = "" => kv = last.preKV

\* The CreateSecret of the public half failed at its metadata write, after
\* its data write; the compensating delete succeeded: the private half is
\* gone and the data of the public half are in the store.
C27_Witness ==
    /\ RolledBack
    /\ last.ops[2].err = "unable to write secret's metadata"
    /\ last.ops[3].err = ""
    /\ last.preKV = NoKV
    /\ ~HasPrivate
    /\ HasPublic
    /\ kv[KeyOf(PublicPath)].hasData
    /\ ~kv[KeyOf(PublicPath)].hasCM
    /\ last.warnings = << >>

\* The CreateSecret of the public half failed at its mount probe; the
\* compensating delete left the store as it was.
C27_WitnessClean ==
    /\ RolledBack
    /\ last.ops[2].err = "invalid path for data"
    /\ last.ops[3].err = ""
    /\ kv = last.preKV

\* The keys the keypair resource reserves in the custom metadata.
KeyPairReserved ==
    { SecretTypeMetadata, SecretLengthMetadata,
      KeyPairLinkedSecretMetadata, KeyPairPartMetadata }

\* The custom metadata of one half: the user metadata u and the reserved
\* entries for type t, part and the path of the other half.
HalfMetadata(u, t, part, linked) ==
    { e \in u : e[1] \notin KeyPairReserved } \cup
    { << SecretTypeMetadata, t >>, << SecretLengthMetadata, "32" >>,
      << KeyPairPartMetadata, part >>, << KeyPairLinkedSecretMetadata, linked >> }

\* C28: after a keypair Update that reports no error, with user metadata u
\* in its plan, for a state of type T on base path B, the custom metadata
\* stored for B/private are u plus secret_type = T, secret_length = "32",
\* keypair_part = private and keypair_linked_secret_path = B/public, those
\* stored for B/public are u plus secret_type = T, secret_length = "32",
\* keypair_part = public and keypair_linked_secret_path = B/private; the two
\* maps differ, and both are the maps the two metadata writes carried.
C28_UpdateWritesDistinctMaps ==
    (last.op = "KeyPairUpdate" /\ last.errors = << >> /\ ~last.crashed) =>
        /\ HasPrivate
        /\ HasPublic
        /\ kv[KeyOf(PrivatePath)].cm =
              HalfMetadata(last.in.metadata.elems, kpState.type, "private", PublicPath)
        /\ kv[KeyOf(PublicPath)].cm =
              HalfMetadata(last.in.metadata.elems, kpState.type, "public", PrivatePath)
        /\ kv[KeyOf(PrivatePath)].cm # kv[KeyOf(PublicPath)].cm
        /\ PrecedingMutation(PrivatePath).op \in { "create", "update" }
        /\ hist[KeyOf(PrivatePath)][Len(hist[KeyOf(PrivatePath)])].meta =
              kv[KeyOf(PrivatePath)].cm
        /\ hist[KeyOf(PublicPath)][Len(hist[KeyOf(PublicPath)])].meta =
              kv[KeyOf(PublicPath)].cm
        /\ Cardinality(WritesOn(PrivatePath)) = 1
        /\ Cardinality(WritesOn(PublicPath)) = 1

\* A keypair created with metadata {owner: a, team: x} was updated with
\* {owner: b}: each half holds owner = b, no team, and its own linkage.
C28_Witness ==
    /\ last.op = "KeyPairUpdate"
    /\ last.errors = << >>
    /\ ~last.crashed
    /\ last.in.metadata = KnownMap({ << "owner", "b" >> })
    /\ << "team", "x" >> \in last.preKV[KeyOf(PrivatePath)].cm
    /\ kv[KeyOf(PrivatePath)].cm =
          { << "owner", "b" >>, << SecretTypeMetadata, "curve25519" >>,
            << SecretLengthMetadata, "32" >>, << KeyPairPartMetadata, "private" >>,
            << KeyPairLinkedSecretMetadata, PublicPath >> }
    /\ MapGet(kv[KeyOf(PublicPath)].cm, KeyPairPartMetadata) = "public"
    /\ MapGet(kv[KeyOf(PublicPath)].cm, KeyPairLinkedSecretMetadata) = PrivatePath

\* The secrets of the resource that the last Create or Update worked on.
ManagedPaths ==
    IF last.op \in { "RandomCreate", "RandomUpdate" } THEN { last.path }
    ELSE { PrivatePath, PublicPath }

\* The entries of the custom metadata under the keys secret_type and
\* secret_length.
TypeAndLength(cm) ==
    { e \in cm : e[1] \in { SecretTypeMetadata, SecretLengthMetadata } }

\* The map m has exactly one entry under secret_type and one under
\* secret_length.
HasTypeAndLength(m) ==
    /\ Cardinality(EntriesOf(m, SecretTypeMetadata)) = 1
    /\ Cardinality(EntriesOf(m, SecretLengthMetadata)) = 1

\* C29: a resource Create (random secret, keypair) that reports no error
\* leaves each secret of the resource with custom metadata that hold
\* secret_type and secret_length; a resource Update that reports no error
\* leaves them there with the values they had before it, which are those of
\* the creation when the creation is the first of the mutations remembered
\* for the secret, all of them updates since.
C29_ReservedKeysKept ==
    /\ (last.op \in { "RandomCreate", "KeyPairCreate" } /\ last.errors = << >>) =>
          \A p \in ManagedPaths :
              /\ KeyOf(p) \in DOMAIN kv
              /\ kv[KeyOf(p)].hasCM
              /\ HasTypeAndLength(kv[KeyOf(p)].cm)
              /\ MapGet(kv[KeyOf(p)].cm, SecretTypeMetadata) = last.in.type
    /\ (/\ last.op \in { "RandomUpdate", "KeyPairUpdate" }
        /\ last.errors = << >>
        /\ ~last.crashed) =>
          \A p \in ManagedPaths :
              /\ KeyOf(p) \in DOMAIN kv
              /\ kv[KeyOf(p)].hasCM
              /\ HasTypeAndLength(kv[KeyOf(p)].cm)
              /\ TypeAndLength(kv[KeyOf(p)].cm) = TypeAndLength(last.preKV[KeyOf(p)].cm)
              /\ (/\ PreHistOf(p)[1].op = "create"
                  /\ \A i \in 2..Len(PreHistOf(p)) : PreHistOf(p)[i].op = "update") =>
                    TypeAndLength(kv[KeyOf(p)].cm) = TypeAndLength(PreHistOf(p)[1].meta)

\* A random secret was created and updated twice, the second time with a
\* plan whose metadata name secret_type and secret_length: the stored values
\* are those of the creation.
C29_Witness ==
    /\ last.op = "RandomUpdate"
    /\ last.errors = << >>
    /\ ~last.crashed
    /\ Len(PreHistOf(last.path)) = 2
    /\ PreHistOf(last.path)[1].op = "create"
    /\ PreHistOf(last.path)[2].op = "update"
    /\ << SecretTypeMetadata, "mine" >> \in last.in.metadata.elems
    /\ TypeAndLength(kv[KeyOf(last.path)].cm) = TypeAndLength(PreHistOf(last.path)[1].meta)
    /\ MapGet(kv[KeyOf(last.path)].cm, SecretTypeMetadata) \in
          { RandomBytesType, Curse25519KeypairType }

\* A keypair was created and updated twice: both halves hold the values of
\* the creation.
C29_WitnessKeyPair ==
    /\ last.op = "KeyPairUpdate"
    /\ last.errors = << >>
    /\ ~last.crashed
    /\ \A p \in ManagedPaths :
          /\ Len(PreHistOf(p)) = 2
          /\ PreHistOf(p)[1].op = "create"
          /\ PreHistOf(p)[2].op = "update"
          /\ TypeAndLength(kv[KeyOf(p)].cm) =
                { << SecretTypeMetadata, "curve25519" >>, << SecretLengthMetadata, "32" >> }

\* The store without the public half of the keypair at base path b, and
\* with a public half of other content.
WithoutPublic(kvs, b) ==
    IF KeyOf(keypairPaths(b)[2]) \in DOMAIN kvs
    THEN KVRemove(kvs, KeyOf(keypairPaths(b)[2])) ELSE kvs

WithOtherPublic(kvs, b) ==
    KVPut(kvs, KeyOf(keypairPaths(b)[2]),
          [hasData |-> TRUE, data |-> { << SecretDataKey, Base64("pB") >> },
           deletion_time |-> "", hasCM |-> TRUE, cm |-> { << "owner", "z" >> }])

\* What keypair Read, given the state of the resource and fault f, answers
\* on store kvs: diagnostics, state, and the store calls it made.
ReadAnswer(kvs, f) ==
    [errors |-> KeyPairRead([World EXCEPT !.kv = kvs], kpState, f).errors,
     warnings |-> KeyPairRead([World EXCEPT !.kv = kvs], kpState, f).warnings,
     crashed |-> KeyPairRead([World EXCEPT !.kv = kvs], kpState, f).crashed,
     stateOp |-> KeyPairRead([World EXCEPT !.kv = kvs], kpState, f).stateOp,
     state |-> KeyPairRead([World EXCEPT !.kv = kvs], kpState, f).state,
     calls |-> KeyPairRead([World EXCEPT !.kv = kvs], kpState, f).w.calls]

\* C30: the store calls of a keypair Read are mount probes and reads that
\* address B/private, none touches B/public, and the store stays as it was;
\* what Read answers (diagnostics, state, store calls) is the same on the
\* store without B/public and with a B/public of other content; when the
\* store holds nothing at B/private and no store call fails, Read removes
\* the resource from the state, also when the store holds B/public.
C30_ReadOnlyPrivate ==
    /\ last.op = "KeyPairRead" =>
          /\ last.calls # << >>
          /\ Touching(PublicPath) = {}
          /\ \A i \in 1..Len(last.calls) :
                /\ last.calls[i][1] \in { "probe", "read" }
                /\ i \in Touching(PrivatePath)
          /\ kv = last.preKV
          /\ (KeyOf(PrivatePath) \notin DOMAIN kv /\ last.errors = << >>) =>
                /\ last.stateOp = "remove"
                /\ ~last.crashed
                /\ ~kpState.present
    /\ (kpState.present /\ nops < MaxOps) =>
          \A f \in EdgeFaults(4) :
              /\ ReadAnswer(WithoutPublic(kv, kpState.base_path), f) = ReadAnswer(kv, f)
              /\ ReadAnswer(WithOtherPublic(kv, kpState.base_path), f) = ReadAnswer(kv, f)

\* The store held the public half and not the private half: Read removed
\* the resource from the state.
C30_Witness ==
    /\ last.op = "KeyPairRead"
    /\ last.errors = << >>
    /\ ~HasPrivate
    /\ HasPublic
    /\ last.in.present
    /\ last.stateOp = "remove"
    /\ ~kpState.present

\* Both halves were in the store: Read set the state from the private half.
C30_WitnessBoth ==
    /\ last.op = "KeyPairRead"
    /\ last.stateOp = "set"
    /\ HasPrivate
    /\ HasPublic
    /\ Cardinality(CallsOf("read")) = 2

\* ------------------------------------------------------------------ C31

\* The options of the answer that prefixSecretPath was given last.
AnsweredOptions == last.in.answer.options

Resolved == last.op = "prefixSecretPath"

\* C31: from a successful mount-discovery answer the probe reports version
\* 2 exactly when the options hold a version field equal to "2"; no
\* options, no version field, "", "1" and every other string give version
\* 1; and the path is resolved, so that the operation goes on, only with
\* version 2: every other answer ends in the 'unsupported mount' error.
C31_VersionSelection ==
    Resolved =>
        /\ last.val.version \in { 1, 2 }
        /\ last.val.version = 2 <=>
              /\ ~AnsweredOptions.isNil
              /\ AnsweredOptions.hasVersion
              /\ AnsweredOptions.version = "2"
        /\ last.val.err = "" <=> last.val.version = 2
        /\ last.val.version = 1 =>
              /\ last.val.err = "unsupported mount"
              /\ last.val.path = << >>

\* A version string other than "", "1" and "2" was answered, version 1 was
\* reported and the path was not resolved.
C31_Witness ==
    /\ Resolved
    /\ AnsweredOptions.hasVersion
    /\ AnsweredOptions.version = "3"
    /\ last.val.version = 1
    /\ last.val.err = "unsupported mount"

\* Version "2" was answered and the path was resolved.
C31_WitnessV2 ==
    /\ Resolved
    /\ AnsweredOptions = Options("2")
    /\ last.in.secretPath = KvFoo
    /\ last.val.version = 2
    /\ last.val.err = ""
    /\ last.val.path = << "k", "v", "/" >> \o last.in.prefix \o << "/", "f", "o", "o" >>

\* ------------------------------------------------------------------ C32

AllOff == [wrap |-> WrapNil, curl |-> FALSE, policy |-> FALSE]

\* The probes whose request has been made, and those that have returned.
Requested(i) ==
    procs[i].pc \in { "restorePolicy", "restoreCurl", "restoreWrap", "returned" }

Returned(i) == procs[i].pc = "returned"

\* C32: a mount probe leaves the client's configuration as it found it:
\* its request is made with no wrapping lookup function and with both
\* output flags false, and when it has returned, with an answer or with an
\* error, the three settings are those from before the call.
C32_ProbeRestoresClient ==
    \A i \in DOMAIN procs :
        /\ (procs[i].pc = "request" \/ Requested(i)) =>
              IF procs[i].pc = "request" THEN client = AllOff
              ELSE procs[i].sent = AllOff
        /\ Returned(i) => client = procs[i].before

\* A probe of a client with all three settings set has returned an error.
C32_Witness ==
    \E i \in DOMAIN procs :
        /\ Returned(i)
        /\ procs[i].before = [wrap |-> WrapCustom, curl |-> TRUE, policy |-> TRUE]
        /\ procs[i].ret.err = PreflightFlagError
        /\ procs[i].sent = AllOff
        /\ client = procs[i].before

\* The same with an answer.
C32_WitnessAnswered ==
    \E i \in DOMAIN procs :
        /\ Returned(i)
        /\ procs[i].before = [wrap |-> WrapCustom, curl |-> TRUE, policy |-> TRUE]
        /\ procs[i].ret.err = ""
        /\ procs[i].ret.version = 2
        /\ client = procs[i].before

\* ------------------------------------------------------------------ C40

AllReturned == \A i \in DOMAIN procs : Returned(i)

C40_WitnessRequest ==
    \E i \in DOMAIN procs :
        /\ Requested(i)
        /\ procs[i].sent.curl

\* ------------------------------------------------------------------ C33

\* A path was resolved on a KV-v2 mount whose path the answer held.
ResolvedV2 ==
    /\ Resolved
    /\ last.in.answer.hasPath
    /\ last.val.version = 2

\* The normalized logical path, the mount path and the API segment of the
\* resolution made last.
NormalizedPath == sanitizePath(last.in.secretPath)

AnsweredMount == last.in.answer.path

Sep == << "/" >>

\* The path q without the segment s that directly follows m.
WithoutSegment(q, m, s) ==
    IF HasPrefix(q, m \o s \o Sep)
    THEN m \o SubSeq(q, Len(m) + Len(s) + 2, Len(q))
    ELSE q

\* The normalized path is the mount path followed by a non-empty remainder.
UnderMount ==
    /\ HasSuffix(AnsweredMount, Sep)
    /\ HasPrefix(NormalizedPath, AnsweredMount)
    /\ Len(NormalizedPath) > Len(AnsweredMount)

RestUnderMount == TrimPrefix(NormalizedPath, AnsweredMount)

\* C33: for a mount path m ending in a separator, a normalized logical
\* path p = m + rest with rest not empty and an API segment s, the
\* rewritten path is m + s + "/" + rest, and taking out the segment s that
\* follows m gives p again.
C33_RewriteAndInverse ==
    (ResolvedV2 /\ UnderMount) =>
        /\ last.val.path = AnsweredMount \o last.in.prefix \o Sep \o RestUnderMount
        /\ WithoutSegment(last.val.path, AnsweredMount, last.in.prefix) = NormalizedPath

\* The path "k//n" of the mount "k/" was rewritten to "k/data/n", under
\* which the path "k/n" is rewritten as well.
C33_Witness ==
    /\ ResolvedV2
    /\ UnderMount
    /\ AnsweredMount = << "k", "/" >>
    /\ NormalizedPath = << "k", "/", "/", "n" >>
    /\ last.in.prefix = SecretDataField
    /\ last.val.path = << "k", "/" >> \o SecretDataField \o << "/", "n" >>
    /\ last.val.path = addPrefixToKVPath(<< "k", "/", "n" >>, AnsweredMount, SecretDataField)

\* ------------------------------------------------------------------ C34

\* The segments of a path: the parts between its separators.
RECURSIVE SegmentsOf(_)
SegmentsOf(q) ==
    IF IndexSlash(q) = 0 THEN << q >>
    ELSE << SubSeq(q, 1, IndexSlash(q) - 1) >>
         \o SegmentsOf(SubSeq(q, IndexSlash(q) + 1, Len(q)))

MountSegments == SegmentsOf(TrimSuffix(AnsweredMount, Sep))

\* The last segment of the mount path: the mount below its namespace.
MountName == MountSegments[Len(MountSegments)]

\* The mount path has leading segments that the path does not have, and
\* the path is the mount's last segment followed by a non-empty remainder.
UnderNamespacedMount ==
    /\ HasSuffix(AnsweredMount, Sep)
    /\ Len(MountSegments) >= 2
    /\ ~HasPrefix(NormalizedPath \o Sep, AnsweredMount)
    /\ HasPrefix(NormalizedPath, MountName \o Sep)
    /\ Len(NormalizedPath) > Len(MountName) + 1

RestUnderName == TrimPrefix(NormalizedPath, MountName \o Sep)

\* C34: for a mount path n1/.../nk/m/ and a path m/rest, the rewritten
\* path is m/<segment>/rest: the API segment once, directly after the part
\* of the mount that the path has, and the segments of rest in their order.
C34_NamespacedMount ==
    (ResolvedV2 /\ UnderNamespacedMount) =>
        last.val.path = MountName \o Sep \o last.in.prefix \o Sep \o RestUnderName

\* The path "k/kn" under the mount "n/k/k/" was rewritten to "k/k/data/n":
\* the segment "kn" is cut in two.
C34_Witness ==
    /\ ResolvedV2
    /\ UnderNamespacedMount
    /\ AnsweredMount = << "n", "/", "k", "/", "k", "/" >>
    /\ NormalizedPath = << "k", "/", "k", "n" >>
    /\ last.in.prefix = SecretDataField
    /\ last.val.path = << "k", "/", "k", "/" >> \o SecretDataField \o << "/", "n" >>

\* The claim holds with one leading segment and a path without empty
\* segments.
C34_OneLeadingSegment ==
    (/\ ResolvedV2
     /\ UnderNamespacedMount
     /\ Len(MountSegments) = 2
     /\ \A i \in 1..Len(SegmentsOf(NormalizedPath)) : SegmentsOf(NormalizedPath)[i] # << >>) =>
        last.val.path = MountName \o Sep \o last.in.prefix \o Sep \o RestUnderName

\* ------------------------------------------------------------------ C35

\* The normalized path is the mount path, with or without its trailing
\* separator.
IsMountPath ==
    \/ NormalizedPath = AnsweredMount
    \/ NormalizedPath = TrimSuffix(AnsweredMount, Sep)

\* C35: when the normalized logical path is the mount path, with or
\* without the mount's trailing separator, the rewritten path is the mount
\* path followed by the API segment, with no remainder and no trailing
\* separator.
C35_PathIsMount ==
    (ResolvedV2 /\ IsMountPath) =>
        /\ last.val.err = ""
        /\ last.val.path = TrimSuffix(AnsweredMount, Sep) \o Sep \o last.in.prefix

\* "/n/k/" was resolved under the mount "n/k/" to "n/k/metadata".
C35_Witness ==
    /\ ResolvedV2
    /\ IsMountPath
    /\ last.in.secretPath = << "/", "n", "/", "k", "/" >>
    /\ AnsweredMount = << "n", "/", "k", "/" >>
    /\ last.in.prefix = MetadataPrefix
    /\ last.val.path = << "n", "/", "k", "/" >> \o MetadataPrefix

\* ------------------------------------------------------------------ C36

\* The logical paths that the mount-discovery requests of the last call
\* asked about.
ProbedPaths == { last.calls[i][2] : i \in CallsOf("probe") }

ProbesOf(q) == { i \in CallsOf("probe") : last.calls[i][2] = q }

\* C36: an operation of the lifecycle layer makes one mount-discovery
\* request for each logical path it works on, and makes it before its
\* reads, writes and deletes.
C36_OneProbePerPath ==
    last.op \in ApiOps =>
        /\ \A q \in ProbedPaths : Cardinality(ProbesOf(q)) = 1
        /\ \A i \in 1..Len(last.calls) :
              last.calls[i][1] # "probe" =>
                  \A j \in CallsOf("probe") : j < i

\* A CreateSecret that succeeded asked for the mount of its one path
\* twice, the second time after its read.
C36_Witness ==
    /\ last.op = "CreateSecret"
    /\ last.err = NoErr
    /\ Len(last.calls) = 5
    /\ last.calls[1] = << "probe", sanitizePath(last.path) >>
    /\ last.calls[2][1] = "read"
    /\ last.calls[3] = last.calls[1]

\* The same of a DeleteSecret, both times for the metadata path.
C36_WitnessDelete ==
    /\ last.op = "DeleteSecret"
    /\ last.err = NoErr
    /\ Len(last.calls) = 4
    /\ last.calls[1][1] = "probe"
    /\ last.calls[3] = last.calls[1]
    /\ last.calls[2][1] = "read"
    /\ last.calls[4] = << "delete", last.calls[2][2] >>

\* UpdateSecretMetadata is the operation that probes once.
C36_UpdateProbesOnce ==
    last.op = "UpdateSecretMetadata" =>
        /\ Cardinality(CallsOf("probe")) = 1
        /\ last.calls[1][1] = "probe"

\* ------------------------------------------------------------------ C37

\* The last call was a DeleteSecret whose metadata read was made, did not
\* fail and found no object.
DeleteFoundNoMetadata ==
    /\ last.op = "DeleteSecret"
    /\ Len(last.calls) >= 2
    /\ last.calls[2][1] = "read"
    /\ last.in.f.at # 2
    /\ EnvRead(last.preKV, last.calls[2][2]).isNil

\* C37: a DeleteSecret whose metadata read returns no object fails with
\* the 'no metadata for secret' error and makes no delete call; the store
\* is what it was.
C37_DeleteWithoutMetadata ==
    DeleteFoundNoMetadata =>
        /\ last.err.msg = "no metadata for secret"
        /\ CallsOf("delete") = {}
        /\ Len(last.calls) = 2
        /\ kv = last.preKV

\* DeleteSecret of a path of the KV-v2 mount that holds nothing, other
\* secrets being in the store or not.
C37_Witness ==
    /\ DeleteFoundNoMetadata
    /\ KeyOf(last.path) \notin DOMAIN last.preKV
    /\ last.err.msg = "no metadata for secret"
    /\ last.calls = << << "probe", KeyOf(last.path) >>,
                       << "read", << "k", "v", "/" >> \o MetadataPrefix \o << "/", "f", "o", "o" >> >> >>

\* ------------------------------------------------------------------ C38

\* The last call was a DeleteSecret that read a metadata object and went
\* through the versions it lists.
DeleteListed ==
    /\ last.op = "DeleteSecret"
    /\ "versions" \in DOMAIN last.in
    /\ Len(last.calls) >= 2
    /\ last.calls[2][1] = "read"
    /\ last.in.f.at # 2
    /\ ~EnvRead(last.preKV, last.calls[2][2]).isNil

\* A version that is not marked deleted has a key that is no decimal
\* number.
LiveUnreadable(vs) == \E v \in vs : v[2] = "" /\ v[1] \notin Decimal

\* What the DeleteSecret made last returns, calls and leaves in the store
\* when the metadata object lists the versions vs.
ListingRun(vs) ==
    LET r == DeleteSecretListing([kv |-> last.preKV, hist |-> last.preHist,
                                  calls |-> << >>, ops |-> << >>],
                                 last.path, last.in.f, vs)
    IN  [err |-> r.err, calls |-> r.w.calls, kv |-> r.w.kv]

\* C38: DeleteSecret returns an error and makes no delete call when a
\* version with an empty deletion_time has a key that is no decimal
\* integer; versions with a deletion_time are passed over, their keys not
\* parsed, and in every other case the outcome of DeleteSecret is the one
\* it has for any other set of versions.
C38_VersionsOnlyAbort ==
    DeleteListed =>
        IF LiveUnreadable(last.in.versions)
        THEN /\ last.err.msg = "unable to read secret version"
             /\ CallsOf("delete") = {}
        ELSE /\ last.err.msg # "unable to read secret version"
             /\ ListingRun(last.in.versions) = ListingRun({})

\* The one version listed is marked deleted and has the key "x": the
\* DeleteSecret failed on the key and made no delete call, where with no
\* version listed it deletes the secret.
C38_Witness ==
    /\ DeleteListed
    /\ last.in.versions = { << "x", DeletedAt >> }
    /\ last.in.f = NoFault
    /\ last.err.msg = "unable to read secret version"
    /\ CallsOf("delete") = {}
    /\ kv = last.preKV
    /\ ListingRun({}).err = NoErr
    /\ ListingRun({}).kv # last.preKV

\* The first part of the claim holds: a live version with an unreadable
\* key ends the DeleteSecret before its delete call.
C38_LiveUnreadableAborts ==
    (DeleteListed /\ LiveUnreadable(last.in.versions)) =>
        /\ last.err.msg = "unable to read secret version"
        /\ CallsOf("delete") = {}
        /\ kv = last.preKV

\* ------------------------------------------------------------------ C39

\* The position in last.ops of the store call at pc of caller i, 0 when it
\* was not made.
StepAt(i, pc) ==
    IF \E n \in 1..Len(last.ops) : last.ops[n] = << i, pc >>
    THEN CHOOSE n \in 1..Len(last.ops) : last.ops[n] = << i, pc >>
    ELSE 0

\* Caller i found the path empty at its existence check.
PassedCheck(i) ==
    /\ procs[i].pc \in { "metadataPath", "writeData", "writeMetadata", "returned" }
    /\ StepAt(i, "metadataPath") > 0 \/ procs[i].pc = "metadataPath"

\* The caller whose call at pc came last.
LastAt(pc) ==
    CHOOSE i \in DOMAIN procs :
        /\ StepAt(i, pc) > 0
        /\ \A j \in DOMAIN procs : StepAt(j, pc) <= StepAt(i, pc)

AllCreated == \A i \in DOMAIN procs : procs[i].pc = "returned" /\ procs[i].err = NoErr

\* C39: CreateSecret does not exclude another caller: once a call has
\* found the path empty, no later store call of it looks at what the path
\* holds, so every call that passed its existence check and whose store
\* calls do not fail returns success, whatever the other callers wrote in
\* between; when all have returned success the store holds the data of the
\* caller that wrote data last and the metadata of the caller that wrote
\* metadata last.
C39_NoMutualExclusion ==
    /\ \A i \in DOMAIN procs :
          (procs[i].pc = "returned" /\ PassedCheck(i)
              /\ StepAt(i, "read") > 0 /\ procs[i].f = NoFault) =>
             procs[i].err = NoErr
    /\ AllCreated =>
          /\ kv[KeyOf(KvFoo)].data = procs[LastAt("writeData")].secret.Data
          /\ kv[KeyOf(KvFoo)].cm = procs[LastAt("writeMetadata")].secret.Metadata

\* Two callers created different secrets at the empty path: both made
\* their existence check before either wrote, both returned success, and
\* the store holds the data of the one and the metadata of the other.
C39_Witness ==
    /\ AllCreated
    /\ Cardinality(DOMAIN procs) = 2
    /\ \A i, j \in DOMAIN procs : StepAt(i, "read") < StepAt(j, "writeData")
    /\ procs[1].secret.Data # procs[2].secret.Data
    /\ procs[1].secret.Metadata # procs[2].secret.Metadata
    /\ kv[KeyOf(KvFoo)].data = procs[2].secret.Data
    /\ kv[KeyOf(KvFoo)].cm = procs[1].secret.Metadata

\* A caller whose existence check comes after another's data write is
\* turned away.
C39_WitnessRejected ==
    \E i, j \in DOMAIN procs :
        /\ StepAt(j, "writeData") > 0
        /\ StepAt(i, "read") > StepAt(j, "writeData")
        /\ procs[i].pc = "returned"
        /\ procs[i].err.msg = "already exists"

====
